---------------------------- MODULE Spec2Model ----------------------------
(***************************************************************************)
(* Barcode decoding and product matching of the pharmacy expiry tracker.   *)
(*                                                                         *)
(* Three programs share the catalog vocabulary:                            *)
(*   - PharmacyMatcher (exact / series / name matching, smartMatch),       *)
(*   - the Backwall Tracker v4.2.0 (parseGS1, parseExpiryDate,             *)
(*     getExpiryStatus, buildMasterIndex, matchProduct, processScan),      *)
(*   - the Oasis Tracker v3.0 (its own parseGS1, parseExpiryDate,          *)
(*     getExpiryStatus, loadMasterData, matchProduct); definitions that    *)
(*     model it carry the prefix app_.                                     *)
(*                                                                         *)
(* A JavaScript string is a sequence of one-character strings.             *)
(***************************************************************************)
EXTENDS Integers, Sequences, FiniteSets, Bags, TLC

VARIABLES
    history,      \* the 'history' object store, in the order of the ids
    calls,        \* the asynchronous calls in flight, each with its locals
    cam,          \* the camera scanner: State's handle and flag, the instances
    master,       \* the 'master' object store, as DB.getAllMaster() returns it
    products,     \* PharmacyMatcher.products
    barcodeMap,   \* PharmacyMatcher._barcodeMap
    ready,        \* PharmacyMatcher._ready
    mres,         \* the last PharmacyMatcher call and what it returned
    masterIndex,  \* State.masterIndex of the Backwall Tracker
    appMaster,    \* the Oasis Tracker's 'master' store, as DB.getAll returns it
    appIndex,     \* State.masterIndex of the Oasis Tracker
    input,         \* the raw string the scanner or the input box delivers
    dres,         \* what parseGS1 of each tracker returned for input
    scan,         \* what processScan of each tracker decoded and matched
    tz,           \* the local time zone, hours east of UTC
    clock,          \* the instant the clock shows
    field,        \* the six digits of an expiry field
    eres,         \* what the expiry functions of each tracker returned
    task,         \* the rebuild continuation that is running, and where it is
    pending,      \* the rebuilds waiting for their catalog read
    built,        \* per index, the catalog read its last finished rebuild used
    reader,       \* the match handler that is running
    page,         \* the program that is open
    pinCallback,  \* State.pinCallback
    pinInput,     \* State.pinInput
    lastPinSuccess, \* State.lastPinSuccess
    wallClock,    \* Date.now()
    pinModal,     \* whether the PIN modal and its error line are shown
    executed      \* the protected actions that have run, and what let them through

vars == <<master, products, barcodeMap, ready, mres, masterIndex, appMaster,
          appIndex, input, dres, scan, tz, clock, field, eres,
          task, pending, built, reader, page,
          pinCallback, pinInput, lastPinSuccess, wallClock, pinModal, executed,
          history, calls, cam>>

matcherVars == <<products, barcodeMap, ready, mres>>
trackerVars == <<masterIndex, appMaster, appIndex, input, dres, scan>>
expiryVars  == <<tz, clock, field, eres>>
loopVars    == <<task, pending, built, reader, page>>
pinVars     == <<pinCallback, pinInput, lastPinSuccess, wallClock, pinModal, executed>>
opVars      == <<history, calls, cam>>

-----------------------------------------------------------------------------
(* JavaScript strings *)

Chars(s) == [i \in 1..Len(s) |-> SubSeq(s, i, i)]

Digits == {"0", "1", "2", "3", "4", "5", "6", "7", "8", "9"}

IsDigit(c) == c \in Digits

\* String.prototype.trim strips these from both ends; \s matches them
IsSpace(c) == c \in {" ", "\t", "\n", "\r"}

LowerCase == Chars("abcdefghijklmnopqrstuvwxyz")
UpperCase == Chars("ABCDEFGHIJKLMNOPQRSTUVWXYZ")

ToUpperChar(c) ==
    IF \E i \in 1..Len(LowerCase) : LowerCase[i] = c
    THEN UpperCase[CHOOSE i \in 1..Len(LowerCase) : LowerCase[i] = c]
    ELSE c

\* an upper-casing that leaves every character as it is
toUpperCase_asIs(s) == s

toUpperCase(s) == [i \in 1..Len(s) |-> ToUpperChar(s[i])]

Min(a, b) == IF a < b THEN a ELSE b
Max(a, b) == IF a > b THEN a ELSE b

\* s.substring(from) with a 0-based index
SubstringFrom(s, from) == SubSeq(s, Min(from, Len(s)) + 1, Len(s))

\* s.substring(from, to) with 0-based indices, from <= to
Substring(s, from, to) == SubSeq(s, Min(from, Len(s)) + 1, Min(to, Len(s)))

\* s.slice(-n)
SliceLast(s, n) == SubSeq(s, Max(Len(s) - n, 0) + 1, Len(s))

\* s.startsWith(p, at) with a 0-based position
StartsWithAt(s, p, at) ==
    /\ at + Len(p) <= Len(s)
    /\ \A i \in 1..Len(p) : s[at + i] = p[i]

startsWith(s, p) == StartsWithAt(s, p, 0)

\* s.indexOf(p, from): the first 0-based position >= from where p occurs, or -1
indexOfFrom(s, p, from) ==
    LET hits == {i \in from..Len(s) : StartsWithAt(s, p, i)}
    IN  IF hits = {} THEN -1 ELSE CHOOSE i \in hits : \A j \in hits : i <= j

indexOf(s, p) == indexOfFrom(s, p, 0)

includes(s, p) == indexOf(s, p) # -1

RECURSIVE TrimStart(_)
TrimStart(s) ==
    IF s # <<>> /\ IsSpace(Head(s)) THEN TrimStart(Tail(s)) ELSE s

RECURSIVE TrimEnd(_)
TrimEnd(s) ==
    IF s # <<>> /\ IsSpace(s[Len(s)]) THEN TrimEnd(SubSeq(s, 1, Len(s) - 1)) ELSE s

trim(s) == TrimEnd(TrimStart(s))

\* s.replace(/\D/g, '')
DigitsOnly(s) == SelectSeq(s, IsDigit)

\* s.replace(/^0+/, '')
RECURSIVE StripLeadingZeros(_)
StripLeadingZeros(s) ==
    IF s # <<>> /\ Head(s) = "0" THEN StripLeadingZeros(Tail(s)) ELSE s

\* s.padStart(n, c) for a one-character c
RECURSIVE padStart(_, _, _)
padStart(s, n, c) == IF Len(s) >= n THEN s ELSE padStart(<<c>> \o s, n, c)

\* /^\d+$/.test(s)
AllDigits(s) == s # <<>> /\ \A i \in 1..Len(s) : IsDigit(s[i])

\* s.split(/\s+/).filter(Boolean): the maximal runs of non-space characters
RECURSIVE SplitWords(_, _, _)
SplitWords(s, cur, acc) ==
    IF s = <<>>
    THEN IF cur = <<>> THEN acc ELSE Append(acc, cur)
    ELSE IF IsSpace(Head(s))
         THEN SplitWords(Tail(s), <<>>, IF cur = <<>> THEN acc ELSE Append(acc, cur))
         ELSE SplitWords(Tail(s), Append(cur, Head(s)), acc)

\* null, undefined and the empty string; an optional value v is <<v>>
None == <<>>

\* values that are no strings: each is a one-element sequence holding a token
NonStrings == { <<"<null>">>, <<"<undefined>">>, <<"<number 0>">>,
                <<"<number 12345678>">>, <<"<object>">> }

\* typeof code === 'string'
IsString(v) == v \notin NonStrings

\* a Map: a function from its keys; set(k, v) overwrites
EmptyMap == [k \in {} |-> <<>>]

\* a map in which the first value set for a key stays
MapSet_keepFirst(m, k, v) ==
    [x \in (DOMAIN m) \cup {k} |-> IF x \in DOMAIN m THEN m[x] ELSE v]

MapSet(m, k, v) == [x \in (DOMAIN m) \cup {k} |-> IF x = k THEN v ELSE m[x]]

MapHas(m, k) == k \in DOMAIN m

\* the order of IndexedDB string keys: by code unit, shorter prefix first
KeyChars == Chars("\t\n\r ()-0123456789ABCDEFGHIJKLMNOPQRSTUVWXYZabcdefghijklmnopqrstuvwxyz|")

CharCode(c) == CHOOSE i \in 1..Len(KeyChars) : KeyChars[i] = c

RECURSIVE KeyLess(_, _)
KeyLess(a, b) ==
    IF a = <<>> THEN b # <<>>
    ELSE IF b = <<>> THEN FALSE
    ELSE IF Head(a) = Head(b) THEN KeyLess(Tail(a), Tail(b))
    ELSE CharCode(Head(a)) < CharCode(Head(b))


-----------------------------------------------------------------------------
(* Numbers, calendar dates and the JavaScript Date *)

DigitValue(c) == CHOOSE n \in 0..9 : Chars("0123456789")[n + 1] = c

\* parseInt(s, 10) of a string of digits
RECURSIVE parseInt(_)
parseInt(s) ==
    IF s = <<>> THEN 0 ELSE 10 * parseInt(SubSeq(s, 1, Len(s) - 1)) + DigitValue(s[Len(s)])

\* String(n) for n >= 0
RECURSIVE NumToStr(_)
NumToStr(n) ==
    IF n < 10 THEN <<Chars("0123456789")[n + 1]>>
    ELSE NumToStr(n \div 10) \o <<Chars("0123456789")[(n % 10) + 1]>>

\* String(n).padStart(2, '0')
Pad2(n) == padStart(NumToStr(n), 2, "0")

IsLeapYear(y) == (y % 4 = 0 /\ y % 100 # 0) \/ y % 400 = 0

\* days of month m (1..12) of year y
DaysInMonth(y, m) ==
    IF m = 2 THEN (IF IsLeapYear(y) THEN 29 ELSE 28)
    ELSE IF m \in {4, 6, 9, 11} THEN 30 ELSE 31

\* the day number (days since 1970-01-01) of the calendar date y-m-d, m in 1..12
DaysFromCivil(y, m, d) ==
    LET yy  == IF m <= 2 THEN y - 1 ELSE y
        era == yy \div 400
        yoe == yy - era * 400
        mp  == IF m > 2 THEN m - 3 ELSE m + 9
        doy == (153 * mp + 2) \div 5 + d - 1
        doe == yoe * 365 + yoe \div 4 - yoe \div 100 + doy
    IN  era * 146097 + doe - 719468

\* the calendar date <<y, m, d>> of a day number
CivilFromDays(z0) ==
    LET z   == z0 + 719468
        era == z \div 146097
        doe == z - era * 146097
        yoe == (doe - doe \div 1460 + doe \div 36524 - doe \div 146096) \div 365
        doy == doe - (365 * yoe + yoe \div 4 - yoe \div 100)
        mp  == (5 * doy + 2) \div 153
        d   == doy - (153 * mp + 2) \div 5 + 1
        m   == IF mp < 10 THEN mp + 3 ELSE mp - 9
        y   == yoe + era * 400 + (IF m <= 2 THEN 1 ELSE 0)
    IN  <<y, m, d>>

\* A Date is an instant in hours since the epoch (UTC), or NaN.
DateAt(t) == [nan |-> FALSE, t |-> t]
InvalidDate == [nan |-> TRUE, t |-> 0]

\* new Date(year, monthIndex, day) in local time: month and day overflow
\* roll over into the following (or preceding) months
NewLocalDate(tzv, year, monthIndex, day) ==
    LET y == year + monthIndex \div 12
        m == (monthIndex % 12) + 1
    IN  DateAt(24 * (DaysFromCivil(y, m, 1) + day - 1) - tzv)

\* the local calendar day number of a Date
LocalDay(tzv, date) == (date.t + tzv) \div 24

\* date.getDate()
getDate(tzv, date) == CivilFromDays(LocalDay(tzv, date))[3]

\* date.setHours(0, 0, 0, 0): local midnight of the same local day
setHoursZero(tzv, date) ==
    IF date.nan THEN date ELSE DateAt(24 * LocalDay(tzv, date) - tzv)

FormatISO(y, m, d) == padStart(NumToStr(y), 4, "0") \o <<"-">> \o Pad2(m) \o <<"-">> \o Pad2(d)

\* date.toISOString().split('T')[0]: the calendar date in UTC
toISODate(date) ==
    LET c == CivilFromDays(date.t \div 24) IN FormatISO(c[1], c[2], c[3])

\* new Date("YYYY-MM-DD"): a date-only ISO string is midnight UTC; a string of
\* another shape or with an element out of range is an Invalid Date. A day of
\* 29..31 that the month does not have is left to the engine: a lenient one
\* rolls it over into the next month, a strict one gives an Invalid Date
ParseISODate(s, lenient) ==
    IF /\ Len(s) = 10 /\ s[5] = "-" /\ s[8] = "-"
       /\ \A i \in {1, 2, 3, 4, 6, 7, 9, 10} : IsDigit(s[i])
    THEN LET y == parseInt(SubSeq(s, 1, 4))
             m == parseInt(SubSeq(s, 6, 7))
             d == parseInt(SubSeq(s, 9, 10))
         IN  IF m \in 1..12 /\ d >= 1 /\ d <= DaysInMonth(y, m)
             THEN DateAt(24 * DaysFromCivil(y, m, d))
             ELSE IF lenient /\ m \in 1..12 /\ d >= 1 /\ d <= 31
             THEN DateAt(24 * (DaysFromCivil(y, m, 1) + d - 1))
             ELSE InvalidDate
    ELSE InvalidDate

-----------------------------------------------------------------------------
(* Expiry dates: Backwall Tracker *)

EXPIRY_SOON_DAYS == 90

parseExpiryDate(tzv, yymmdd) ==
    LET yy   == parseInt(Substring(yymmdd, 0, 2))
        mm   == parseInt(Substring(yymmdd, 2, 4))
        dd0  == parseInt(Substring(yymmdd, 4, 6))
        year == 2000 + yy
        dd   == IF dd0 = 0 THEN getDate(tzv, NewLocalDate(tzv, year, mm, 0)) ELSE dd0
    IN  [iso     |-> NumToStr(year) \o <<"-">> \o Pad2(mm) \o <<"-">> \o Pad2(dd),
         ddmmyy  |-> Pad2(dd) \o Pad2(mm) \o Pad2(yy),
         display |-> Pad2(dd) \o <<"/">> \o Pad2(mm) \o <<"/">> \o NumToStr(year)]

\* getExpiryStatus(expiryISO) at the instant now
getExpiryStatus(tzv, now, lenient, expiryISO) ==
    IF expiryISO = <<>> THEN "unknown"
    ELSE LET today  == setHoursZero(tzv, now)
             expiry == setHoursZero(tzv, ParseISODate(expiryISO, lenient))
         IN  IF expiry.nan THEN "ok"
             ELSE LET diffDays == (expiry.t - today.t) \div 24
                  IN  IF diffDays < 0 THEN "expired"
                      ELSE IF diffDays <= EXPIRY_SOON_DAYS THEN "expiring"
                      ELSE "ok"

-----------------------------------------------------------------------------
(* Expiry dates: Oasis Tracker *)

app_EXPIRY_SOON_DAYS == 90

\* Math.ceil(a / b) for b > 0
CeilDiv(a, b) == -((-a) \div b)

\* getExpiryStatus(date) at the instant now; dates holds no Date or one
app_getExpiryStatus(tzv, now, dates) ==
    IF dates = <<>> THEN "missing"
    ELSE LET today == setHoursZero(tzv, now)
             exp   == setHoursZero(tzv, dates[1])
         IN  IF exp.nan THEN "ok"
             ELSE LET diff == CeilDiv(exp.t - today.t, 24)
                  IN  IF diff < 0 THEN "expired"
                      ELSE IF diff <= app_EXPIRY_SOON_DAYS THEN "expiring"
                      ELSE "ok"

app_parseExpiryDate(tzv, yymmdd) ==
    LET yy   == parseInt(Substring(yymmdd, 0, 2))
        mm   == parseInt(Substring(yymmdd, 2, 4))
        dd0  == parseInt(Substring(yymmdd, 4, 6))
        year == IF yy >= 50 THEN 1900 + yy ELSE 2000 + yy
        dd   == IF dd0 = 0 THEN getDate(tzv, NewLocalDate(tzv, year, mm, 0)) ELSE dd0
        date == NewLocalDate(tzv, year, mm - 1, dd)
    IN  [date      |-> date,
         iso       |-> toISODate(date),
         formatted |-> Pad2(dd) \o <<"/">> \o Pad2(mm) \o <<"/">> \o NumToStr(year)]

-----------------------------------------------------------------------------
(* The master catalog *)

Product(b, n, r) == [barcode |-> Chars(b), name |-> Chars(n), rms |-> Chars(r)]

\* the records a master store can hold: uploaded rows, the variants saveEdit
\* writes (14-digit, 13-digit, RMS-keyed), rows without a name
ProductPool ==
    { Product("06291109120100", "PANADOL BABY", "220219715"),
      Product("06291109120117", "PANADOL EXTRA", ""),
      Product("6291109120100",  "Panadol Baby", "220219715"),
      Product("77771109120100", "Panadol", "R77"),
      Product("012345",         "Zyrtec", ""),
      Product("9900001",        "Voltaren", "06291109120117"),
      Product("220219715",      "Panadol Baby", "220219715"),
      Product("AB-0054321",     "Brufen", "0012345"),
      Product("00000000012345", "", "R99") }

MaxCatalog == 2

RECURSIVE SortByKey(_)
SortByKey(S) ==
    IF S = {} THEN <<>>
    ELSE LET m == CHOOSE x \in S : \A y \in S \ {x} : KeyLess(x.barcode, y.barcode)
         IN  <<m>> \o SortByKey(S \ {m})

\* DB.getAllMaster(): the store is keyed by barcode, getAll lists it in key order
getAllMaster(S) == SortByKey(S)

Catalogs == { getAllMaster(S) : S \in {T \in SUBSET ProductPool : Cardinality(T) <= MaxCatalog} }

-----------------------------------------------------------------------------
(* PharmacyMatcher *)

Thrown == [type |-> "throw", results |-> <<>>]

NoCall == [op |-> "none", query |-> <<>>, limit |-> 0,
           out |-> [type |-> "none", results |-> <<>>]]

\* init(): the loop that fills _barcodeMap
RECURSIVE IndexBarcodes(_, _)
IndexBarcodes(prods, bmap) ==
    IF prods = <<>> THEN bmap
    ELSE LET p == Head(prods)
         IN  IndexBarcodes(Tail(prods),
                 IF p.barcode # <<>> THEN MapSet(bmap, trim(p.barcode), p) ELSE bmap)

\* matchExact(code): <<>> for null, <<p>> for a product
matchExact(bmap, code) ==
    LET k == trim(code) IN IF MapHas(bmap, k) THEN <<bmap[k]>> ELSE <<>>

RECURSIVE SeriesLoop(_, _, _, _)
SeriesLoop(prods, query, limit, results) ==
    IF prods = <<>> THEN results
    ELSE LET p  == Head(prods)
             bc == trim(p.barcode)
         IN  IF startsWith(bc, query) \/ startsWith(query, bc)
             THEN LET r == Append(results, p)
                  IN  IF Len(r) >= limit THEN r
                      ELSE SeriesLoop(Tail(prods), query, limit, r)
             ELSE SeriesLoop(Tail(prods), query, limit, results)

matchSeries(prods, code, limit) == SeriesLoop(prods, trim(code), limit, <<>>)

\* a scoring without the substring rank
NameScore_noSubstring(name, q, words) ==
    IF name = q THEN 3
    ELSE IF \A i \in 1..Len(words) : includes(name, words[i]) THEN 1
    ELSE 0

NameScore(name, q, words) ==
    IF name = q THEN 3
    ELSE IF includes(name, q) THEN 2
    ELSE IF \A i \in 1..Len(words) : includes(name, words[i]) THEN 1
    ELSE 0

WithScore(p, sc) ==
    [barcode |-> p.barcode, name |-> p.name, rms |-> p.rms, score |-> sc]

RECURSIVE ScoreLoop(_, _, _, _)
ScoreLoop(prods, q, words, results) ==
    IF prods = <<>> THEN results
    ELSE LET p  == Head(prods)
             sc == NameScore(toUpperCase(p.name), q, words)
         IN  ScoreLoop(Tail(prods), q, words,
                 IF sc > 0 THEN Append(results, WithScore(p, sc)) ELSE results)

\* an insertion that puts a product before those of equal score
RECURSIVE InsertByScore_beforeEqual(_, _)
InsertByScore_beforeEqual(sorted, x) ==
    IF sorted = <<>> THEN <<x>>
    ELSE IF Head(sorted).score > x.score
         THEN <<Head(sorted)>> \o InsertByScore_beforeEqual(Tail(sorted), x)
         ELSE <<x>> \o sorted

\* results.sort((a, b) => b._score - a._score): a stable insertion by score
RECURSIVE InsertByScore(_, _)
InsertByScore(sorted, x) ==
    IF sorted = <<>> THEN <<x>>
    ELSE IF Head(sorted).score >= x.score
         THEN <<Head(sorted)>> \o InsertByScore(Tail(sorted), x)
         ELSE <<x>> \o sorted

RECURSIVE SortByScore(_, _)
SortByScore(rest, sorted) ==
    IF rest = <<>> THEN sorted
    ELSE SortByScore(Tail(rest), InsertByScore(sorted, Head(rest)))

\* a.slice(0, n) for n >= 0
SliceTo(a, n) == SubSeq(a, 1, Min(n, Len(a)))

matchByName(prods, query, limit) ==
    LET q     == toUpperCase(trim(query))
        words == SplitWords(q, <<>>, <<>>)
    IN  SliceTo(SortByScore(ScoreLoop(prods, q, words, <<>>), <<>>), limit)

\* _checkReady() in front of a method: the throw, or what the method returns
Returned(v) == [type |-> "returned", results |-> v]

\* a readiness check that lets every call through
checkReady_never(rdy, out) == out

checkReady(rdy, out) == IF ~rdy THEN Thrown ELSE out

\* smartMatch with the series tier tried before the exact tier
smartMatch_seriesFirst(rdy, prods, bmap, query, limit) ==
    IF ~rdy THEN Thrown
    ELSE LET q      == trim(query)
             exact  == matchExact(bmap, q)
             series == matchSeries(prods, q, limit)
             byName == matchByName(prods, q, limit)
         IN  IF AllDigits(q) /\ series # <<>>
             THEN [type |-> "series_barcode", results |-> series]
             ELSE IF AllDigits(q) /\ exact # <<>>
             THEN [type |-> "exact_barcode", results |-> exact]
             ELSE IF byName # <<>>
             THEN [type |-> "name", results |-> byName]
             ELSE [type |-> "no_match", results |-> <<>>]

smartMatch(rdy, prods, bmap, query, limit) ==
    IF ~rdy THEN Thrown
    ELSE LET q      == trim(query)
             exact  == matchExact(bmap, q)
             series == matchSeries(prods, q, limit)
             byName == matchByName(prods, q, limit)
         IN  IF AllDigits(q) /\ exact # <<>>
             THEN [type |-> "exact_barcode", results |-> exact]
             ELSE IF AllDigits(q) /\ series # <<>>
             THEN [type |-> "series_barcode", results |-> series]
             ELSE IF byName # <<>>
             THEN [type |-> "name", results |-> byName]
             ELSE [type |-> "no_match", results |-> <<>>]

MaxLimit == 2
DefaultLimit == 10
Limits == (0..MaxLimit) \cup {DefaultLimit}

\* a code as scanners and catalogs write it: bare, zero-padded to 14, that
\* form less one zero, and without leading zeros
PadVariants(code) ==
    LET g14 == padStart(code, 14, "0")
    IN  { code, g14, StripLeadingZeros(code),
          IF g14 # <<>> /\ Head(g14) = "0" THEN Tail(g14) ELSE g14 }

MatcherCodes == { Chars("06291109120100"), Chars("0012345"), Chars("220219715") }

MatcherQueries ==
    UNION { PadVariants(c) : c \in MatcherCodes }
    \cup { Chars("062911091201"), Chars(" 06291109120117 "), Chars("0629110912010099"),
           Chars("panadol"), Chars("Panadol Baby"), Chars("baby  panadol"),
           Chars("xyz999"), Chars("999"), Chars("  "), Chars("extra") }

\* init() resolves: the catalog is read and indexed, the matcher becomes ready
MatcherInit ==
    /\ products' = master
    /\ barcodeMap' = IndexBarcodes(master, EmptyMap)
    /\ ready' = TRUE
    /\ mres' = NoCall
    /\ UNCHANGED <<master, loopVars, pinVars, opVars, trackerVars, expiryVars>>

\* init() when DB.getAllMaster() rejects: the error is logged, nothing changes
MatcherInitFail ==
    /\ mres' = NoCall
    /\ UNCHANGED <<master, loopVars, pinVars, opVars, products, barcodeMap, ready, trackerVars, expiryVars>>

\* matchExact(input)
MatchExactCall ==
    /\ mres' = [op |-> "matchExact", query |-> input, limit |-> 0,
                out |-> checkReady(ready, Returned(matchExact(barcodeMap, input)))]
    /\ UNCHANGED <<master, loopVars, pinVars, opVars, products, barcodeMap, ready, trackerVars, expiryVars>>

\* matchSeries(input, l), and matchSeries(input) with the default limit
MatchSeriesCall ==
    \E l \in Limits :
        /\ mres' = [op |-> "matchSeries", query |-> input, limit |-> l,
                    out |-> checkReady(ready, Returned(matchSeries(products, input, l)))]
        /\ UNCHANGED <<master, loopVars, pinVars, opVars, products, barcodeMap, ready, trackerVars, expiryVars>>

\* matchByName(input, l), and matchByName(input) with the default limit
MatchByNameCall ==
    \E l \in Limits :
        /\ mres' = [op |-> "matchByName", query |-> input, limit |-> l,
                    out |-> checkReady(ready, Returned(matchByName(products, input, l)))]
        /\ UNCHANGED <<master, loopVars, pinVars, opVars, products, barcodeMap, ready, trackerVars, expiryVars>>

\* smartMatch(input, l), and smartMatch(input) with the default limit
SmartMatchCall ==
    \E l \in Limits :
        /\ mres' = [op |-> "smartMatch", query |-> input, limit |-> l,
                    out |-> smartMatch(ready, products, barcodeMap, input, l)]
        /\ UNCHANGED <<master, loopVars, pinVars, opVars, products, barcodeMap, ready, trackerVars, expiryVars>>

-----------------------------------------------------------------------------
(* Regular-expression searches of the decoders *)

\* the number of consecutive characters from 0-based position from that satisfy P
RunLen(s, from, P(_)) ==
    LET ns == {n \in 0..Max(Len(s) - from, 0) : \A k \in 1..n : P(s[from + k])}
    IN  CHOOSE n \in ns : \A m \in ns : m <= n

\* s.match(/tag(X{lo,hi})/) for a character class X: the capture of the first
\* occurrence of tag that at least lo such characters follow, at most hi of
\* them; <<>> when there is none, <<capture>> otherwise
MatchAfter(s, tag, P(_), lo, hi) ==
    LET hits == {i \in 0..Len(s) :
                    StartsWithAt(s, tag, i) /\ RunLen(s, i + Len(tag), P) >= lo}
    IN  IF hits = {} THEN <<>>
        ELSE LET i == CHOOSE h \in hits : \A j \in hits : h <= j
                 n == Min(RunLen(s, i + Len(tag), P), hi)
             IN  <<Substring(s, i + Len(tag), i + Len(tag) + n)>>

NotParen(c) == c # "("

\* the group separator character \x1d
GS == "<GS>"

NotBatchStop(c) == c \notin {"(", "|", GS}

\* a quantity that keeps a decoded zero
IntOrOne_keepZero(s) == parseInt(s)

\* parseInt(digits) || 1
IntOrOne(s) == IF parseInt(s) = 0 THEN 1 ELSE parseInt(s)

\* a derivation of gtin13 that strips every leading zero
Gtin13Of_stripAllZeros(gtin14) == StripLeadingZeros(gtin14)

\* gtin14.startsWith('0') ? gtin14.slice(1) : gtin14
Gtin13Of(gtin14) ==
    IF gtin14 # <<>> /\ Head(gtin14) = "0" THEN Tail(gtin14) ELSE gtin14

-----------------------------------------------------------------------------
(* Backwall Tracker: parseGS1 *)

EmptyParsed(raw) ==
    [raw |-> raw, gtin14 |-> <<>>, gtin13 |-> <<>>, expiryISO |-> <<>>,
     expiryDDMMYY |-> <<>>, expiryDisplay |-> <<>>, batch |-> <<>>, serial |-> <<>>,
     qty |-> 1, isGS1 |-> FALSE]

WithExpiry(r, parsed) ==
    [r EXCEPT !.expiryISO = parsed.iso, !.expiryDDMMYY = parsed.ddmmyy,
              !.expiryDisplay = parsed.display]

\* if (gtinMatch) { ... }
SetGtin(r, gtinMatch) ==
    IF gtinMatch # <<>>
    THEN [r EXCEPT !.gtin14 = gtinMatch[1], !.gtin13 = Gtin13Of(gtinMatch[1])]
    ELSE r

\* if (expiryMatch) { ... }
SetExpiry(tzv, r, expiryMatch) ==
    IF expiryMatch # <<>> THEN WithExpiry(r, parseExpiryDate(tzv, expiryMatch[1])) ELSE r

\* if (batchMatch) { ... }
SetBatch(r, batchMatch) ==
    IF batchMatch # <<>> THEN [r EXCEPT !.batch = trim(batchMatch[1])] ELSE r

\* if (serialMatch) { ... }
SetSerial(r, serialMatch) ==
    IF serialMatch # <<>> THEN [r EXCEPT !.serial = trim(serialMatch[1])] ELSE r

\* if (qtyMatch) { ... }
SetQty(r, qtyMatch) ==
    IF qtyMatch # <<>> THEN [r EXCEPT !.qty = IntOrOne(qtyMatch[1])] ELSE r

\* the branch for a code that contains '('
ParseParenthesized(tzv, c, r0) ==
    SetQty(
      SetSerial(
        SetBatch(
          SetExpiry(tzv,
            SetGtin([r0 EXCEPT !.isGS1 = TRUE],
                    MatchAfter(c, Chars("(01)"), IsDigit, 14, 14)),
            MatchAfter(c, Chars("(17)"), IsDigit, 6, 6)),
          MatchAfter(c, Chars("(10)"), NotParen, 1, Len(c))),
        MatchAfter(c, Chars("(21)"), NotParen, 1, Len(c))),
      MatchAfter(c, Chars("(30)"), IsDigit, 1, Len(c)))

\* the batch's end: the nearest of the AIs 21, 30, 37 after its start
BatchEnd(remaining, batchStart) ==
    LET idxs == {indexOfFrom(remaining, Chars(ai), batchStart) : ai \in {"21", "30", "37"}}
                    \ {-1}
    IN  IF idxs = {} THEN Len(remaining)
        ELSE CHOOSE i \in idxs : \A j \in idxs : i <= j

\* Batch (10): from the first "10" of what remains to the batch's end
RawBatch(r, remaining, batch10Idx) ==
    IF batch10Idx # -1
    THEN [r EXCEPT !.batch = trim(Substring(remaining, batch10Idx + 2,
                                            BatchEnd(remaining, batch10Idx + 2)))]
    ELSE r

\* Expiry (17): six digits after the first "17" of the remainder, which are then
\* cut out of it
RawExpiry(tzv, r, rem0, exp17Idx) ==
    IF /\ exp17Idx # -1 /\ Len(rem0) >= exp17Idx + 8
       /\ \A i \in exp17Idx + 3 .. exp17Idx + 8 : IsDigit(rem0[i])
    THEN RawBatch(WithExpiry(r, parseExpiryDate(tzv,
                                 Substring(rem0, exp17Idx + 2, exp17Idx + 8))),
                  Substring(rem0, 0, exp17Idx) \o SubstringFrom(rem0, exp17Idx + 8),
                  indexOf(Substring(rem0, 0, exp17Idx) \o SubstringFrom(rem0, exp17Idx + 8),
                          Chars("10")))
    ELSE RawBatch(r, rem0, indexOf(rem0, Chars("10")))

\* the branch for a code that starts with 01 and 14 digits
ParseRawGS1(tzv, c, r0) ==
    RawExpiry(tzv,
              [r0 EXCEPT !.isGS1 = TRUE, !.gtin14 = Substring(c, 2, 16),
                         !.gtin13 = Gtin13Of(Substring(c, 2, 16))],
              SubstringFrom(c, 16),
              indexOf(SubstringFrom(c, 16), Chars("17")))

\* the branch for a plain barcode
ParsePlain(c, r0) ==
    LET digits == DigitsOnly(c)
    IN  IF Len(digits) >= 8 /\ Len(digits) <= 14
        THEN [r0 EXCEPT !.gtin14 = padStart(digits, 14, "0"),
                        !.gtin13 = Gtin13Of(padStart(digits, 14, "0"))]
        ELSE IF Len(digits) >= 5
        THEN [r0 EXCEPT !.gtin14 = padStart(digits, 14, "0"), !.gtin13 = digits]
        ELSE r0

IsLineBreak(c) == c \in {"\r", "\n"}
NotLineBreak(c) == ~IsLineBreak(c)

\* /^01\d{14}/
StartsWithAI01(c) == startsWith(c, Chars("01")) /\ RunLen(c, 2, IsDigit) >= 14

\* the three formats, tried on the trimmed code without line breaks
ParseCode(tzv, c, r0) ==
    IF includes(c, <<"(">>) THEN ParseParenthesized(tzv, c, r0)
    ELSE IF StartsWithAI01(c) THEN ParseRawGS1(tzv, c, r0)
    ELSE ParsePlain(c, r0)

parseGS1(tzv, raw) ==
    IF raw = <<>> \/ ~IsString(raw) THEN EmptyParsed(raw)
    ELSE ParseCode(tzv, SelectSeq(trim(raw), NotLineBreak), EmptyParsed(raw))

-----------------------------------------------------------------------------
(* Backwall Tracker: the master index and matchProduct *)

EmptyIndex == [exact |-> EmptyMap, last8 |-> EmptyMap, rms |-> EmptyMap, all |-> <<>>]

\* a registration that replaces the list under k
MapPush_overwrite(m, k, v) == MapSet(m, k, <<v>>)

\* idx.last8.get(k).push(v), after creating the list when k is new
MapPush(m, k, v) == MapSet(m, k, IF MapHas(m, k) THEN Append(m[k], v) ELSE <<v>>)

\* a loop body that registers the RMS code in idx.rms only
IndexItem_rmsOnly(idx, item) ==
    LET barcode == trim(DigitsOnly(item.barcode))
        name    == item.name
        rms     == trim(item.rms)
        gtin14  == padStart(barcode, 14, "0")
        noZeros == StripLeadingZeros(barcode)
        e1      == MapSet(MapSet(idx.exact, barcode, name), gtin14, name)
        e2      == IF Head(gtin14) = "0" THEN MapSet(e1, Tail(gtin14), name) ELSE e1
        e3      == IF Len(noZeros) >= 5 THEN MapSet(e2, noZeros, name) ELSE e2
        exactB  == IF barcode # <<>> THEN e3 ELSE idx.exact
        last8B  == IF barcode # <<>> /\ Len(barcode) >= 8
                   THEN MapPush(idx.last8, SliceLast(barcode, 8),
                                [barcode |-> barcode, name |-> name])
                   ELSE idx.last8
    IN  IF (barcode = <<>> /\ rms = <<>>) \/ name = <<>> THEN idx
        ELSE [exact |-> exactB,
              last8 |-> last8B,
              rms   |-> IF rms # <<>> THEN MapSet(idx.rms, rms, name) ELSE idx.rms,
              all   |-> Append(idx.all, [barcode |-> barcode, name |-> name, rms |-> rms])]

\* the body of buildMasterIndex's loop for one item
IndexItem(idx, item) ==
    LET barcode == trim(DigitsOnly(item.barcode))
        name    == item.name
        rms     == trim(item.rms)
        gtin14  == padStart(barcode, 14, "0")
        noZeros == StripLeadingZeros(barcode)
        e1      == MapSet(MapSet(idx.exact, barcode, name), gtin14, name)
        e2      == IF Head(gtin14) = "0" THEN MapSet(e1, Tail(gtin14), name) ELSE e1
        e3      == IF Len(noZeros) >= 5 THEN MapSet(e2, noZeros, name) ELSE e2
        exactB  == IF barcode # <<>> THEN e3 ELSE idx.exact
        last8B  == IF barcode # <<>> /\ Len(barcode) >= 8
                   THEN MapPush(idx.last8, SliceLast(barcode, 8),
                                [barcode |-> barcode, name |-> name])
                   ELSE idx.last8
    IN  IF (barcode = <<>> /\ rms = <<>>) \/ name = <<>> THEN idx
        ELSE [exact |-> IF rms # <<>> THEN MapSet(exactB, rms, name) ELSE exactB,
              last8 |-> last8B,
              rms   |-> IF rms # <<>> THEN MapSet(idx.rms, rms, name) ELSE idx.rms,
              all   |-> Append(idx.all, [barcode |-> barcode, name |-> name, rms |-> rms])]

RECURSIVE IndexItems(_, _)
IndexItems(masterData, idx) ==
    IF masterData = <<>> THEN idx
    ELSE IndexItems(Tail(masterData), IndexItem(idx, Head(masterData)))

buildMasterIndex(masterData) == IndexItems(masterData, EmptyIndex)

NoMatch == [name |-> <<>>, type |-> "NONE"]

\* [gtin14, gtin13, rawCode, rawCode?.replace(/\D/g, '')].filter(Boolean)
TryExact(gtin14, gtin13, rawCode) ==
    SelectSeq(<<gtin14, gtin13, rawCode, DigitsOnly(rawCode)>>, LAMBDA x : x # <<>>)

\* the exact tier: the first candidate found as it is or without leading zeros
RECURSIVE ExactTier(_, _)
ExactTier(idx, tryExact) ==
    IF tryExact = <<>> THEN NoMatch
    ELSE LET c       == Head(tryExact)
             noZeros == StripLeadingZeros(c)
         IN  IF MapHas(idx.exact, c) THEN [name |-> idx.exact[c], type |-> "EXACT"]
             ELSE IF Len(noZeros) >= 5 /\ MapHas(idx.exact, noZeros)
             THEN [name |-> idx.exact[noZeros], type |-> "EXACT"]
             ELSE ExactTier(idx, Tail(tryExact))

RmsTier(idx, rawCode) ==
    IF rawCode # <<>> /\ MapHas(idx.rms, rawCode)
    THEN [name |-> idx.rms[rawCode], type |-> "RMS"]
    ELSE NoMatch

\* a last-8 tier that picks the first candidate of an ambiguous suffix
Last8Tier_firstCandidate(idx, gtin14) ==
    IF gtin14 # <<>> /\ MapHas(idx.last8, SliceLast(gtin14, 8))
    THEN [name |-> idx.last8[SliceLast(gtin14, 8)][1].name, type |-> "LAST8"]
    ELSE [name |-> <<>>, type |-> "NONE"]

Last8Tier(idx, gtin14) ==
    IF /\ gtin14 # <<>>
       /\ MapHas(idx.last8, SliceLast(gtin14, 8))
       /\ Len(idx.last8[SliceLast(gtin14, 8)]) = 1
    THEN [name |-> idx.last8[SliceLast(gtin14, 8)][1].name, type |-> "LAST8"]
    ELSE NoMatch

\* the first of three tiers that matched
FirstHit(a, b, c) == IF a.type # "NONE" THEN a ELSE IF b.type # "NONE" THEN b ELSE c

\* a matcher that consults the last-8 tier before the exact tier
matchProduct_last8First(idx, gtin14, gtin13, rawCode) ==
    FirstHit(Last8Tier(idx, gtin14),
             ExactTier(idx, TryExact(gtin14, gtin13, rawCode)),
             RmsTier(idx, rawCode))

matchProduct(idx, gtin14, gtin13, rawCode) ==
    FirstHit(ExactTier(idx, TryExact(gtin14, gtin13, rawCode)),
             RmsTier(idx, rawCode),
             Last8Tier(idx, gtin14))

\* processScan from the call of matchProduct on, for the decoded record p
MatchDecoded(idx, c, p) ==
    [outcome |-> "matched", code |-> c, parsed |-> p,
     match |-> matchProduct(idx, p.gtin14, p.gtin13, c)]

\* processScan after parseGS1: the digits fallback when the decoder found no code
ScanDecoded(idx, c, parsed, digits) ==
    IF parsed.gtin14 = <<>> /\ parsed.gtin13 = <<>>
    THEN IF Len(digits) >= 5
         THEN MatchDecoded(idx, c, [parsed EXCEPT !.gtin14 = padStart(digits, 14, "0"),
                                                  !.gtin13 = digits])
         ELSE [outcome |-> "invalid", code |-> c, parsed |-> parsed, match |-> NoMatch]
    ELSE MatchDecoded(idx, c, parsed)

\* processScan up to the call of matchProduct: the trimmed code, the decoded
\* record with the digits fallback applied, and the match; outcome "no_barcode"
\* or "invalid" when it returns before matching
processScanMatch(tzv, idx, raw) ==
    IF trim(raw) = <<>>
    THEN [outcome |-> "no_barcode", code |-> <<>>, parsed |-> EmptyParsed(<<>>),
          match |-> NoMatch]
    ELSE ScanDecoded(idx, trim(raw), parseGS1(tzv, trim(raw)), DigitsOnly(trim(raw)))

-----------------------------------------------------------------------------
(* Oasis Tracker: parseGS1, the master index and matchProduct *)

\* aiLengths: the fixed length of an AI's value, 0 for a string that is no
\* fixed-length AI
app_FixedAILength(ai) ==
    IF ai \in {Chars("01"), Chars("02")} THEN 14
    ELSE IF ai \in {Chars("11"), Chars("13"), Chars("15"), Chars("17")} THEN 6
    ELSE IF ai = Chars("20") THEN 2
    ELSE 0

\* aiLengths: the AIs marked 'v'
app_IsVariableAI(ai) == ai \in {Chars("10"), Chars("21"), Chars("30"), Chars("37")}

RECURSIVE app_ConvertLoop(_, _, _)
app_ConvertLoop(c, pos, result) ==
    IF pos >= Len(c) THEN result
    ELSE LET ai  == Substring(c, pos, pos + 2)
             sep == indexOfFrom(c, <<"|">>, pos + 2)
         IN  IF app_IsVariableAI(ai)
             THEN app_ConvertLoop(c,
                      IF sep # -1 THEN sep + 1 ELSE Len(c),
                      result \o <<"(">> \o ai \o <<")">> \o
                          (IF sep # -1 THEN Substring(c, pos + 2, sep)
                                       ELSE SubstringFrom(c, pos + 2)))
             ELSE IF app_FixedAILength(ai) > 0
             THEN app_ConvertLoop(c, pos + 2 + app_FixedAILength(ai),
                      result \o <<"(">> \o ai \o <<")">> \o
                          Substring(c, pos + 2, pos + 2 + app_FixedAILength(ai)))
             ELSE app_ConvertLoop(c, pos + 1, result)

app_convertToParenthesized(c) ==
    LET result == app_ConvertLoop(c, 0, <<>>) IN IF result # <<>> THEN result ELSE c

app_EmptyParsed(raw) ==
    [valid |-> FALSE, raw |-> raw, gtin14 |-> <<>>, gtin13 |-> <<>>, expiry |-> None,
     expiryFormatted |-> <<>>, expiryStatus |-> "missing", batch |-> <<>>,
     serial |-> <<>>, qty |-> 1]

NotBar(c) == c # "|"

\* if (gtinMatch) { ... }
app_SetGtin(r, gtinMatch) ==
    IF gtinMatch # <<>>
    THEN [r EXCEPT !.gtin14 = padStart(gtinMatch[1], 14, "0"),
                   !.gtin13 = Gtin13Of(padStart(gtinMatch[1], 14, "0")),
                   !.valid = TRUE]
    ELSE r

app_WithExpiry(tzv, nowv, r, p) ==
    [r EXCEPT !.expiry = p.iso,
              !.expiryFormatted = p.formatted,
              !.expiryStatus = app_getExpiryStatus(tzv, nowv, <<p.date>>)]

\* if (expiryMatch) { ... }
app_SetExpiry(tzv, nowv, r, expiryMatch) ==
    IF expiryMatch # <<>>
    THEN app_WithExpiry(tzv, nowv, r, app_parseExpiryDate(tzv, expiryMatch[1]))
    ELSE r

\* if (batchMatch) ...
app_SetBatch(r, batchMatch) ==
    IF batchMatch # <<>> THEN [r EXCEPT !.batch = trim(SelectSeq(batchMatch[1], NotBar))]
    ELSE r

\* if (serialMatch) ...
app_SetSerial(r, serialMatch) ==
    IF serialMatch # <<>> THEN [r EXCEPT !.serial = trim(SelectSeq(serialMatch[1], NotBar))]
    ELSE r

\* if (qtyMatch) ...
app_SetQty(r, qtyMatch) ==
    IF qtyMatch # <<>> THEN [r EXCEPT !.qty = IntOrOne(qtyMatch[1])] ELSE r

\* the fields of the parenthesized code c
app_ParseFields(tzv, nowv, c, r0) ==
    app_SetQty(
      app_SetSerial(
        app_SetBatch(
          app_SetExpiry(tzv, nowv,
            app_SetGtin(r0, MatchAfter(c, Chars("(01)"), IsDigit, 12, 14)),
            MatchAfter(c, Chars("(17)"), IsDigit, 6, 6)),
          MatchAfter(c, Chars("(10)"), NotBatchStop, 1, Len(c))),
        MatchAfter(c, Chars("(21)"), NotBatchStop, 1, Len(c))),
      MatchAfter(c, Chars("(30)"), IsDigit, 1, Len(c)))

\* parseGS1 for the trimmed code c0 with | in place of the group separator
app_ParseCode(tzv, nowv, c0, r0) ==
    IF AllDigits(c0) /\ Len(c0) >= 8 /\ Len(c0) <= 14
    THEN [r0 EXCEPT !.gtin14 = padStart(c0, 14, "0"),
                    !.gtin13 = Gtin13Of(padStart(c0, 14, "0")),
                    !.valid = TRUE]
    ELSE IF ~includes(c0, <<"(">>) /\ RunLen(c0, 0, IsDigit) >= 2
    THEN app_ParseFields(tzv, nowv, app_convertToParenthesized(c0), r0)
    ELSE app_ParseFields(tzv, nowv, c0, r0)

\* raw.trim().replace(/\x1d/g, '|')
app_Separated(t) == [i \in 1..Len(t) |-> IF t[i] = GS THEN "|" ELSE t[i]]

app_parseGS1(tzv, nowv, raw) ==
    IF raw = <<>> \/ ~IsString(raw) THEN app_EmptyParsed(raw)
    ELSE app_ParseCode(tzv, nowv, app_Separated(trim(raw)), app_EmptyParsed(raw))

EmptyAppIndex == [exact |-> EmptyMap, last8 |-> EmptyMap]

\* the body of loadMasterData's forEach for one item
app_IndexItem(idx, item) ==
    LET g14 == padStart(item.gtin, 14, "0")
    IN  [exact |-> MapSet(idx.exact, g14, item),
         last8 |-> MapPush(idx.last8, SliceLast(g14, 8), item)]

RECURSIVE app_IndexItems(_, _)
app_IndexItems(data, idx) ==
    IF data = <<>> THEN idx
    ELSE app_IndexItems(Tail(data), app_IndexItem(idx, Head(data)))

\* loadMasterData: the index is cleared and filled from the stored items
app_loadMasterData(data) == app_IndexItems(data, EmptyAppIndex)

app_NoMatch == [product |-> None, matchType |-> "none"]

app_matchProduct(idx, gtin14) ==
    IF MapHas(idx.exact, gtin14)
    THEN [product |-> <<idx.exact[gtin14]>>, matchType |-> "exact"]
    ELSE IF /\ MapHas(idx.last8, SliceLast(gtin14, 8))
            /\ Len(idx.last8[SliceLast(gtin14, 8)]) = 1
    THEN [product |-> <<idx.last8[SliceLast(gtin14, 8)][1]>>, matchType |-> "last8"]
    ELSE app_NoMatch

\* processScan after parseGS1
app_ScanDecoded(idx, parsed) ==
    IF ~parsed.valid
    THEN [outcome |-> "invalid", parsed |-> parsed, match |-> app_NoMatch]
    ELSE [outcome |-> "matched", parsed |-> parsed,
          match |-> app_matchProduct(idx, parsed.gtin14)]

\* processScan up to the call of matchProduct
app_processScanMatch(tzv, nowv, idx, raw) ==
    app_ScanDecoded(idx, app_parseGS1(tzv, nowv, raw))

-----------------------------------------------------------------------------
(* Idle values of the state a specification does not use *)

NoTask == [kind |-> "none", pc |-> "done", data |-> <<>>, rest |-> <<>>, idx |-> <<>>]

NoDecode == [tracker |-> None, app |-> None]
NoScan   == [tracker |-> None, app |-> None]
NoExpiry == [parsed |-> None, status |-> None, appParsed |-> None, appStatus |-> None]

IdleMatcher == products = <<>> /\ barcodeMap = EmptyMap /\ ready = FALSE /\ mres = NoCall
IdleTracker == /\ masterIndex = EmptyIndex /\ appMaster = <<>> /\ appIndex = EmptyAppIndex
               /\ input = <<>> /\ dres = NoDecode /\ scan = NoScan
IdleExpiry  == tz = 0 /\ clock = DateAt(0) /\ field = <<>> /\ eres = NoExpiry
IdleLoop    == /\ task = NoTask /\ pending = EmptyBag /\ reader = "idle" /\ page = "none"
               /\ built = [tracker |-> <<>>, app |-> <<>>, matcher |-> <<>>]
IdleOps     == history = <<>> /\ calls = <<>> /\ cam = <<>>
IdlePin     == /\ pinCallback = None /\ pinInput = <<>> /\ lastPinSuccess = 0
               /\ wallClock = 0 /\ pinModal = [show |-> FALSE, error |-> FALSE]
               /\ executed = <<>>

-----------------------------------------------------------------------------
(* Operations of the two trackers *)

\* refreshMasterStats: the catalog is read and State.masterIndex replaced
RefreshMasterStats ==
    /\ masterIndex' = buildMasterIndex(master)
    /\ scan' = [scan EXCEPT !.tracker = None]
    /\ UNCHANGED <<master, loopVars, pinVars, opVars, matcherVars, appMaster, appIndex, input, dres, expiryVars>>

\* loadMasterData: the index is cleared and refilled from the stored items
LoadMasterData ==
    /\ appIndex' = app_loadMasterData(appMaster)
    /\ scan' = [scan EXCEPT !.app = None]
    /\ UNCHANGED <<master, loopVars, pinVars, opVars, matcherVars, masterIndex, appMaster, input, dres, expiryVars>>

ParseGS1Call ==
    /\ dres' = [dres EXCEPT !.tracker = <<parseGS1(tz, input)>>]
    /\ UNCHANGED <<master, loopVars, pinVars, opVars, matcherVars, masterIndex, appMaster, appIndex, input, scan,
                   expiryVars>>

AppParseGS1Call ==
    /\ dres' = [dres EXCEPT !.app = <<app_parseGS1(tz, clock, input)>>]
    /\ UNCHANGED <<master, loopVars, pinVars, opVars, matcherVars, masterIndex, appMaster, appIndex, input, scan,
                   expiryVars>>

ProcessScanMatch ==
    /\ IsString(input)
    /\ scan' = [scan EXCEPT !.tracker = <<processScanMatch(tz, masterIndex, input)>>]
    /\ UNCHANGED <<master, loopVars, pinVars, opVars, matcherVars, masterIndex, appMaster, appIndex, input, dres,
                   expiryVars>>

AppProcessScanMatch ==
    /\ IsString(input)
    /\ scan' = [scan EXCEPT !.app = <<app_processScanMatch(tz, clock, appIndex, input)>>]
    /\ UNCHANGED <<master, loopVars, pinVars, opVars, matcherVars, masterIndex, appMaster, appIndex, input, dres,
                   expiryVars>>

\* the calendar date of an expiry field as the Oasis Tracker holds it
ParseExpiryDateCall ==
    /\ field # <<>>
    /\ eres' = [eres EXCEPT !.parsed = <<parseExpiryDate(tz, field)>>]
    /\ UNCHANGED <<master, loopVars, pinVars, opVars, matcherVars, trackerVars, tz, clock, field>>

\* getExpiryStatus(item.expiryISO): the ISO string of the decoded field, or ''
\* when the scan carried no expiry
GetExpiryStatusCall ==
    /\ field = <<>> \/ eres.parsed # None
    /\ \E lenient \in BOOLEAN :
           eres' = [eres EXCEPT !.status =
                       <<getExpiryStatus(tz, clock, lenient,
                            IF field = <<>> THEN <<>> ELSE eres.parsed[1].iso)>>]
    /\ UNCHANGED <<master, loopVars, pinVars, opVars, matcherVars, trackerVars, tz, clock, field>>

AppParseExpiryDateCall ==
    /\ field # <<>>
    /\ eres' = [eres EXCEPT !.appParsed = <<app_parseExpiryDate(tz, field)>>]
    /\ UNCHANGED <<master, loopVars, pinVars, opVars, matcherVars, trackerVars, tz, clock, field>>

\* getExpiryStatus(p.date) as parseGS1 calls it, or with no date
AppGetExpiryStatusCall ==
    /\ field = <<>> \/ eres.appParsed # None
    /\ eres' = [eres EXCEPT !.appStatus =
                   <<app_getExpiryStatus(tz, clock,
                        IF field = <<>> THEN <<>> ELSE <<eres.appParsed[1].date>>)>>]
    /\ UNCHANGED <<master, loopVars, pinVars, opVars, matcherVars, trackerVars, tz, clock, field>>

-----------------------------------------------------------------------------
(* Inputs *)

RECURSIVE Zeros(_)
Zeros(k) == IF k = 0 THEN <<>> ELSE <<"0">> \o Zeros(k - 1)

ScanCodes ==
    UNION { PadVariants(Chars(c)) :
              c \in {"06291109120100", "0012345", "220219715", "0054321"} }
    \cup { Chars("12341109120100"), Chars("R77"), Chars("AB-0054321"),
           Chars("(01)06291109120100(17)250131(10)B1"),
           Chars("010629110912010017250131"), Chars("(10)B1(21)S1"),
           Chars("123456789012345"), Chars("1234"), Chars(" 06291109120117 "),
           Chars("  "), Chars("00012341109120100") }

\* three products of which two share their last eight digits
Last8Pool ==
    { Product("06291109120100", "Panadol Baby", ""),
      Product("77771109120100", "Telfast", ""),
      Product("06291109120117", "PANADOL EXTRA", "R1") }

Last8Catalogs == { getAllMaster(S) : S \in SUBSET Last8Pool }

AppItem(p) == [gtin |-> p.barcode, name |-> p.name]

\* DB.getAll('master'): the store is keyed by gtin
AppCatalogs ==
    { [i \in 1..Len(c) |-> AppItem(c[i])] : c \in Last8Catalogs }

Last8Codes ==
    { Chars("06291109120100"), Chars("12341109120100"), Chars("6291109120100"),
      Chars("12341109120117"), Chars("(01)55551109120100(10)B7"), Chars("99999999") }

MaxZeros == 2
MaxDigits == 16

DigitBase == Chars("62911091201001753948")

\* digit strings of every length up to MaxDigits, with up to MaxZeros leading
\* zeros, and the same after the AI 01
DigitCodes ==
    { Zeros(k) \o SubSeq(DigitBase, 1, Min(n, Len(DigitBase))) :
          k \in 0..MaxZeros, n \in 1..MaxDigits }

DecodeCodes ==
    DigitCodes
    \cup { Chars("01") \o d : d \in {x \in DigitCodes : Len(x) \in 13..15} }
    \cup { Chars("0112345678"),
           Chars("(01)06291109120100(17)250131(10)B1(21)S9(30)12"),
           Chars("(10)B1(01)0629110912010(17)250200"),
           Chars("(10)AB123456789012345"),
           Chars("(01)629110912010(30)0"),
           Chars("0106291109120100172502001021X"),
           Chars("01062911091201001725013110B1") \o <<GS>> \o Chars("21S9"),
           Chars("010629110912010010B1|17250131"),
           Chars(" 629-11091-20100 \n"), Chars("abc"), Chars("12-34"), <<>>,
           Chars("1012345"), Chars("21S9"),
           Chars("(21)S9(30)0(10) B 1 (17)250131(01)06291109120100"),
           Chars("(30)7(10)B1|X(01)06291109120100"),
           Chars("01062911091201001725013110B121S9"),
           Chars("01062911091201001725013110B7"),
           Chars("(01)06291109120100(17)251305"),
           Chars("(17)250230(10)B1") }
    \cup NonStrings

TzOffsets == {-5, 0, 4}

\* the day number of 2025-01-31
Today == DaysFromCivil(2025, 1, 31)

\* the clock at some hour of the local day Today
Nows(tzv) == { DateAt(24 * Today + h - tzv) : h \in {0, 12, 23} }

ExpiryFields ==
    { Chars(yy) \o Chars(mm) \o Chars(dd) :
        yy \in {"00", "24", "25", "49", "50", "99"},
        mm \in {"00", "01", "02", "04", "05", "12", "13"},
        dd \in {"00", "01", "02", "28", "29", "30", "31", "32"} }

-----------------------------------------------------------------------------
(* Specification of the Backwall Tracker's matching over a stored catalog *)

InitTracker ==
    /\ master \in Catalogs
    /\ input \in ScanCodes
    /\ masterIndex = EmptyIndex /\ appMaster = <<>> /\ appIndex = EmptyAppIndex
    /\ dres = NoDecode /\ scan = NoScan
    /\ IdleMatcher /\ IdleExpiry
    /\ IdleLoop /\ IdlePin /\ IdleOps

NextTracker == RefreshMasterStats \/ ProcessScanMatch

SpecTracker == InitTracker /\ [][NextTracker]_vars

(* Specification of both trackers' matching over catalogs that share suffixes *)

InitLast8 ==
    /\ master \in Last8Catalogs \cup Catalogs
    /\ appMaster \in AppCatalogs
    /\ input \in Last8Codes
    /\ masterIndex = EmptyIndex /\ appIndex = EmptyAppIndex
    /\ dres = NoDecode /\ scan = NoScan
    /\ IdleMatcher /\ IdleExpiry
    /\ IdleLoop /\ IdlePin /\ IdleOps

NextLast8 == RefreshMasterStats \/ LoadMasterData \/ ProcessScanMatch \/ AppProcessScanMatch

SpecLast8 == InitLast8 /\ [][NextLast8]_vars

(* Specification of both trackers' decoding *)

InitDecode ==
    /\ input \in DecodeCodes
    /\ tz \in TzOffsets
    /\ clock \in Nows(tz)
    /\ field = <<>> /\ eres = NoExpiry
    /\ master = <<>> /\ masterIndex = EmptyIndex
    /\ appMaster = <<>> /\ appIndex = EmptyAppIndex
    /\ dres = NoDecode /\ scan = NoScan
    /\ IdleMatcher
    /\ IdleLoop /\ IdlePin /\ IdleOps

NextDecode == ParseGS1Call \/ AppParseGS1Call \/ ProcessScanMatch \/ AppProcessScanMatch

SpecDecode == InitDecode /\ [][NextDecode]_vars

(* Specification of both trackers' expiry functions *)

InitExpiry ==
    /\ tz \in TzOffsets
    /\ clock \in Nows(tz)
    /\ field \in ExpiryFields \cup {<<>>}
    /\ eres = NoExpiry
    /\ master = <<>>
    /\ IdleMatcher /\ IdleTracker
    /\ IdleLoop /\ IdlePin /\ IdleOps

NextExpiry ==
    \/ ParseExpiryDateCall \/ GetExpiryStatusCall
    \/ AppParseExpiryDateCall \/ AppGetExpiryStatusCall

SpecExpiry == InitExpiry /\ [][NextExpiry]_vars

-----------------------------------------------------------------------------
(* Specification of the PharmacyMatcher over a stored catalog *)

InitMatcher ==
    /\ master \in Catalogs
    /\ input \in MatcherQueries
    /\ masterIndex = EmptyIndex /\ appMaster = <<>> /\ appIndex = EmptyAppIndex
    /\ dres = NoDecode /\ scan = NoScan
    /\ IdleMatcher /\ IdleExpiry
    /\ IdleLoop /\ IdlePin /\ IdleOps

NextMatcher ==
    \/ MatcherInit \/ MatcherInitFail
    \/ MatchExactCall \/ MatchSeriesCall \/ MatchByNameCall \/ SmartMatchCall

SpecMatcher == InitMatcher /\ [][NextMatcher]_vars


-----------------------------------------------------------------------------
(* Properties of the PharmacyMatcher *)

SmartMatchReturned == mres.op = "smartMatch" /\ mres.out.type # "throw"

\* C1: on a ready matcher smartMatch returns exactly one of four tagged
\* outcomes: exact_barcode with the one product iff the trimmed query is digits
\* only and matchExact hits; series_barcode with the matchSeries results iff it
\* is digits only, matchExact misses and matchSeries is non-empty; name with the
\* matchByName results iff (it is not digits only, or both barcode tiers fail)
\* and matchByName is non-empty; otherwise no_match with no results. The results
\* are empty iff the tag is no_match.
C1_SmartMatchOutcomes ==
    SmartMatchReturned =>
        LET q      == trim(mres.query)
            digits == AllDigits(q)
            exact  == matchExact(barcodeMap, q)
            series == matchSeries(products, q, mres.limit)
            byName == matchByName(products, q, mres.limit)
            out    == mres.out
        IN  /\ out.type \in {"exact_barcode", "series_barcode", "name", "no_match"}
            /\ out.type = "exact_barcode" <=> (digits /\ exact # <<>>)
            /\ out.type = "exact_barcode" => out.results = exact /\ Len(exact) = 1
            /\ out.type = "series_barcode" <=> (digits /\ exact = <<>> /\ series # <<>>)
            /\ out.type = "series_barcode" => out.results = series
            /\ out.type = "name" <=>
                   ((~digits \/ (exact = <<>> /\ series = <<>>)) /\ byName # <<>>)
            /\ out.type = "name" => out.results = byName
            /\ out.type = "no_match" <=>
                   ((~digits \/ (exact = <<>> /\ series = <<>>)) /\ byName = <<>>)
            /\ out.results = <<>> <=> out.type = "no_match"

\* a digits-only query that misses the exact tier and is answered by two
\* products of the series tier
C1_Witness ==
    /\ SmartMatchReturned
    /\ AllDigits(trim(mres.query))
    /\ mres.out.type = "series_barcode"
    /\ Len(mres.out.results) = 2

\* the forms of a catalog code C that denote C up to leading zeros: its 14-digit
\* zero-padded form, that form with one leading zero stripped, and C without
\* leading zeros when at least 5 digits remain
SameCodeForms(C) ==
    LET g14 == padStart(C, 14, "0")
        nz  == StripLeadingZeros(C)
    IN  {g14} \cup (IF Head(g14) = "0" THEN {Tail(g14)} ELSE {})
              \cup (IF Len(nz) >= 5 THEN {nz} ELSE {})

\* C4: the dispatcher's exact tier is insensitive to left zero-padding: for a
\* catalog product with code C, smartMatch on a digits-only query that denotes C
\* up to leading zeros returns exact_barcode with that product.
C4_ExactIgnoresZeroPadding ==
    SmartMatchReturned =>
        \A i \in 1..Len(products) :
            LET C == trim(products[i].barcode)
            IN  (AllDigits(C) /\ Len(C) <= 14 /\ trim(mres.query) \in SameCodeForms(C))
                    => /\ mres.out.type = "exact_barcode"
                       /\ mres.out.results = <<products[i]>>

-----------------------------------------------------------------------------
(* Properties of the Backwall Tracker's matchProduct *)

TrackerMatched == scan.tracker # None /\ scan.tracker[1].outcome = "matched"

\* the keys the exact tier looks up for a scan: gtin14, gtin13, the raw code and
\* its digits, each as it is and, when at least 5 characters remain, without
\* leading zeros
ExactKeysOf(S) ==
    UNION { {c} \cup (IF Len(StripLeadingZeros(c)) >= 5 THEN {StripLeadingZeros(c)} ELSE {})
            : c \in S \ {<<>>} }

ScanExactKeys(r) ==
    ExactKeysOf({r.parsed.gtin14, r.parsed.gtin13, r.code, DigitsOnly(r.code)})

\* the candidates filed under the last 8 characters of a gtin14
Last8Candidates(idx, gtin14) ==
    IF gtin14 # <<>> /\ SliceLast(gtin14, 8) \in DOMAIN idx.last8
    THEN idx.last8[SliceLast(gtin14, 8)] ELSE <<>>

\* C2: matchProduct tries Exact, then RMS, then the last 8 digits, and returns
\* the first tier that succeeds: an exact variant that is a key of the exact
\* index gives EXACT whatever the other indices hold, RMS is given only after the
\* exact tier missed, LAST8 only after the exact and RMS tiers missed, and NONE
\* with an empty name only when every tier missed.
C2_TierOrder ==
    TrackerMatched =>
        LET r        == scan.tracker[1]
            m        == r.match
            hits     == ScanExactKeys(r) \cap DOMAIN masterIndex.exact
            rmsHit   == r.code # <<>> /\ r.code \in DOMAIN masterIndex.rms
            cands    == Last8Candidates(masterIndex, r.parsed.gtin14)
        IN  /\ m.type \in {"EXACT", "RMS", "LAST8", "NONE"}
            /\ hits # {} => /\ m.type = "EXACT"
                            /\ m.name \in {masterIndex.exact[k] : k \in hits}
            /\ m.type = "EXACT" => hits # {}
            /\ (hits = {} /\ rmsHit) => m = [name |-> masterIndex.rms[r.code], type |-> "RMS"]
            /\ m.type = "RMS" => hits = {} /\ rmsHit
            /\ m.type = "LAST8" => /\ hits = {} /\ ~rmsHit
                                   /\ Len(cands) = 1 /\ m.name = cands[1].name
            /\ m.type = "NONE" => /\ m.name = <<>>
                                  /\ hits = {} /\ ~rmsHit /\ Len(cands) # 1

\* a scan whose code is no key of the exact index although the index holds
\* products, and that the last-8 tier resolves
C2_Witness ==
    /\ TrackerMatched
    /\ scan.tracker[1].match.type = "LAST8"
    /\ ScanExactKeys(scan.tracker[1]) \cap DOMAIN masterIndex.exact = {}
    /\ DOMAIN masterIndex.exact # {}

\* the barcode aliases buildMasterIndex registers for the indexed products
BarcodeAliases(idx) ==
    UNION { IF idx.all[i].barcode = <<>> THEN {}
            ELSE PadVariants(idx.all[i].barcode) \ {<<>>} : i \in 1..Len(idx.all) }

\* the raw code of the scan is the RMS code of an indexed product and no barcode
\* alias of any product
RawIsRmsOnly ==
    /\ TrackerMatched
    /\ scan.tracker[1].code \in DOMAIN masterIndex.rms
    /\ scan.tracker[1].code \notin BarcodeAliases(masterIndex)

\* C5 as stated: a raw input that equals the RMS code of an indexed product and
\* no barcode alias of any product is resolved by the RMS tier, with that
\* product's name and match kind RMS.
C5_RmsTierResolves ==
    RawIsRmsOnly =>
        scan.tracker[1].match =
            [name |-> masterIndex.rms[scan.tracker[1].code], type |-> "RMS"]

\* C5: a raw input that equals the RMS code of an indexed product and no barcode
\* alias of any product is resolved by the exact tier, never by the RMS tier:
\* the match kind is EXACT, and the name is that product's name unless gtin14 or
\* gtin13 (as they are or without leading zeros) hit the exact index first.
C5_RmsCodeResolvesExact ==
    RawIsRmsOnly =>
        LET r     == scan.tracker[1]
            first == ExactKeysOf({r.parsed.gtin14, r.parsed.gtin13})
                         \cap DOMAIN masterIndex.exact
        IN  /\ r.match.type = "EXACT"
            /\ first = {} => r.match.name = masterIndex.rms[r.code]
            /\ first # {} => r.match.name \in {masterIndex.exact[k] : k \in first}

\* the RMS code of the only indexed product is scanned
C5_Witness ==
    /\ RawIsRmsOnly
    /\ Len(masterIndex.all) = 1
    /\ masterIndex.all[1].rms = scan.tracker[1].code
    /\ scan.tracker[1].match.name = masterIndex.all[1].name

-----------------------------------------------------------------------------
(* Properties of the last-8 tier of both trackers *)

AppMatched == scan.app # None /\ scan.app[1].outcome = "matched"

\* C3: in both trackers, when the exact tier misses and two or more catalog
\* entries share the last 8 digits of the scanned gtin14, the result is
\* NONE/none without a product; LAST8/last8 is returned only for a suffix with
\* exactly one candidate, and then with that candidate.
C3_AmbiguousLast8IsNone ==
    /\ TrackerMatched =>
           LET r     == scan.tracker[1]
               cands == Last8Candidates(masterIndex, r.parsed.gtin14)
           IN  /\ (ScanExactKeys(r) \cap DOMAIN masterIndex.exact = {} /\ Len(cands) >= 2)
                      => r.match = [name |-> <<>>, type |-> "NONE"]
               /\ r.match.type = "LAST8" =>
                      Len(cands) = 1 /\ r.match.name = cands[1].name
    /\ AppMatched =>
           LET r     == scan.app[1]
               cands == Last8Candidates(appIndex, r.parsed.gtin14)
           IN  /\ (r.parsed.gtin14 \notin DOMAIN appIndex.exact /\ Len(cands) >= 2)
                      => r.match = [product |-> None, matchType |-> "none"]
               /\ r.match.matchType = "last8" =>
                      Len(cands) = 1 /\ r.match.product = <<cands[1]>>

\* both trackers scanned a code that is in neither exact index while two
\* products with distinct codes share its last 8 digits
C3_Witness ==
    /\ TrackerMatched /\ AppMatched
    /\ ScanExactKeys(scan.tracker[1]) \cap DOMAIN masterIndex.exact = {}
    /\ scan.app[1].parsed.gtin14 \notin DOMAIN appIndex.exact
    /\ LET ct == Last8Candidates(masterIndex, scan.tracker[1].parsed.gtin14)
           ca == Last8Candidates(appIndex, scan.app[1].parsed.gtin14)
       IN  /\ Len(ct) = 2 /\ ct[1].barcode # ct[2].barcode
           /\ Len(ca) = 2 /\ ca[1].gtin # ca[2].gtin

-----------------------------------------------------------------------------
(* Properties of decoding *)

\* the input is a string of 8 to 14 digits
IsPlainCode == AllDigits(input) /\ Len(input) >= 8 /\ Len(input) <= 14

\* D left-padded with zeros to 14 characters
LeftPad14(D) == [i \in 1..14 |-> IF i <= 14 - Len(D) THEN "0" ELSE D[i - (14 - Len(D))]]

\* gtin13 is gtin14 less exactly one leading zero, or gtin14 itself
StripsOneZero(g14, g13) ==
    IF g14[1] = "0" THEN g13 = SubSeq(g14, 2, 14) ELSE g13 = g14

\* C6: for a digits-only string D of 8 to 14 characters, parseGS1 of both
\* trackers gives gtin14 = D left-padded with zeros to exactly 14 characters and
\* gtin13 = gtin14 less exactly one leading zero when it has one, else gtin14.
C6_PlainCodePadsTo14 ==
    IsPlainCode =>
        /\ dres.tracker # None =>
               /\ dres.tracker[1].gtin14 = LeftPad14(input)
               /\ StripsOneZero(dres.tracker[1].gtin14, dres.tracker[1].gtin13)
        /\ dres.app # None =>
               /\ dres.app[1].gtin14 = LeftPad14(input)
               /\ StripsOneZero(dres.app[1].gtin14, dres.app[1].gtin13)

\* both trackers decoded a 9-digit code that starts with a zero: its gtin14
\* starts with several zeros, of which gtin13 drops one
C6_Witness ==
    /\ IsPlainCode /\ Len(input) = 9 /\ input[1] = "0"
    /\ dres.tracker # None /\ dres.app # None
    /\ Len(dres.tracker[1].gtin13) = 13 /\ Len(dres.app[1].gtin13) = 13

\* C7: for every input, the gtin14 of the decoded record and the gtin14
\* processScan passes to matching (its digits fallback included) is empty or
\* exactly 14 characters long.
C7_Gtin14EmptyOr14 ==
    /\ dres.tracker # None => Len(dres.tracker[1].gtin14) \in {0, 14}
    /\ dres.app # None => Len(dres.app[1].gtin14) \in {0, 14}
    /\ TrackerMatched => Len(scan.tracker[1].parsed.gtin14) \in {0, 14}
    /\ AppMatched => Len(scan.app[1].parsed.gtin14) \in {0, 14}

-----------------------------------------------------------------------------
(* Properties of the expiry functions *)

FieldYY == parseInt(SubSeq(field, 1, 2))
FieldMM == parseInt(SubSeq(field, 3, 4))
FieldDD == parseInt(SubSeq(field, 5, 6))

\* dd/mm/yyyy and yyyy-mm-dd written out digit by digit
TwoDigits(n) == <<Chars("0123456789")[(n \div 10) + 1], Chars("0123456789")[(n % 10) + 1]>>
FourDigits(n) == TwoDigits(n \div 100) \o TwoDigits(n % 100)
IsoOf(y, m, d) == FourDigits(y) \o <<"-">> \o TwoDigits(m) \o <<"-">> \o TwoDigits(d)
DisplayOf(y, m, d) == TwoDigits(d) \o <<"/">> \o TwoDigits(m) \o <<"/">> \o FourDigits(y)

\* the last day of month m of year y
LastDay(y, m) ==
    IF m = 2 THEN (IF (y % 4 = 0 /\ y % 100 # 0) \/ y % 400 = 0 THEN 29 ELSE 28)
    ELSE IF m \in {4, 6, 9, 11} THEN 30 ELSE 31

\* the year each tracker reads from yy
TrackerYear == 2000 + FieldYY
AppYear == IF FieldYY >= 50 THEN 1900 + FieldYY ELSE 2000 + FieldYY

\* C8: for an expiry field yymm00 with month 01-12, parseExpiryDate of both
\* trackers resolves the day to the last calendar day of that month of that
\* year, so that 250200 resolves to 2025-02-28.
C8_DayZeroIsLastDay ==
    (field # <<>> /\ FieldDD = 0 /\ FieldMM \in 1..12) =>
        /\ eres.parsed # None =>
               LET last == LastDay(TrackerYear, FieldMM)
               IN  /\ eres.parsed[1].iso = IsoOf(TrackerYear, FieldMM, last)
                   /\ eres.parsed[1].display = DisplayOf(TrackerYear, FieldMM, last)
                   /\ eres.parsed[1].ddmmyy =
                          TwoDigits(last) \o TwoDigits(FieldMM) \o TwoDigits(FieldYY)
        /\ eres.appParsed # None =>
               LET last == LastDay(AppYear, FieldMM)
               IN  /\ eres.appParsed[1].iso = IsoOf(AppYear, FieldMM, last)
                   /\ eres.appParsed[1].formatted = DisplayOf(AppYear, FieldMM, last)

\* C9: for an expiry field yymmdd with yy in 00-49, month 01-12 and a day the
\* month has, parseExpiryDate of both trackers gives the ISO string 20yy-mm-dd
\* and the display string dd/mm/20yy.
C9_IsoAndDisplay ==
    (/\ field # <<>> /\ FieldYY <= 49 /\ FieldMM \in 1..12
     /\ FieldDD >= 1 /\ FieldDD <= LastDay(2000 + FieldYY, FieldMM)) =>
        /\ eres.parsed # None =>
               /\ eres.parsed[1].iso = IsoOf(2000 + FieldYY, FieldMM, FieldDD)
               /\ eres.parsed[1].display = DisplayOf(2000 + FieldYY, FieldMM, FieldDD)
        /\ eres.appParsed # None =>
               /\ eres.appParsed[1].iso = IsoOf(2000 + FieldYY, FieldMM, FieldDD)
               /\ eres.appParsed[1].formatted = DisplayOf(2000 + FieldYY, FieldMM, FieldDD)

\* the classification of d whole days until expiry
ClassOf(d) == IF d < 0 THEN "expired" ELSE IF d <= 90 THEN "expiring" ELSE "ok"

\* the field names a date of the calendar (day 00 standing for the last day)
FieldIsDate ==
    /\ field # <<>> /\ FieldMM \in 1..12
    /\ FieldDD <= LastDay(TrackerYear, FieldMM)

\* the day number of the date the field names, in the year y
FieldDay(y) ==
    DaysFromCivil(y, FieldMM, IF FieldDD = 0 THEN LastDay(y, FieldMM) ELSE FieldDD)

\* the day number of today, local
TodayLocal == (clock.t + tz) \div 24

\* C10: with d = whole days from today's local midnight to the expiry date,
\* getExpiryStatus gives expired iff d < 0, expiring iff 0 <= d <= 90, ok iff
\* d > 90, and unknown/missing iff no date is given, whatever else holds.
C10_StatusByWholeDays ==
    /\ eres.status # None =>
           /\ field = <<>> <=> eres.status[1] = "unknown"
           /\ FieldIsDate => eres.status[1] = ClassOf(FieldDay(TrackerYear) - TodayLocal)
    /\ eres.appStatus # None =>
           /\ field = <<>> <=> eres.appStatus[1] = "missing"
           /\ FieldIsDate => eres.appStatus[1] = ClassOf(FieldDay(AppYear) - TodayLocal)


(* matchByName *)

NameCallReturned == mres.op = "matchByName" /\ mres.out.type = "returned"

UpperName(p) == toUpperCase(p.name)

UpperQuery == toUpperCase(trim(mres.query))

Contains(name, q) ==
    \E i \in 1..(Len(name) + 1) :
        /\ i + Len(q) - 1 <= Len(name)
        /\ \A k \in 1..Len(q) : name[i + k - 1] = q[k]

\* q[i..j] is a maximal run of non-whitespace characters of q
IsToken(q, i, j) ==
    /\ 1 <= i /\ i <= j /\ j <= Len(q)
    /\ \A k \in i..j : ~IsSpace(q[k])
    /\ (i = 1 \/ IsSpace(q[i - 1]))
    /\ (j = Len(q) \/ IsSpace(q[j + 1]))

EveryTokenIn(name, q) ==
    \A i \in 1..Len(q) : \A j \in i..Len(q) :
        IsToken(q, i, j) => Contains(name, SubSeq(q, i, j))

RankOf(name, q) ==
    IF name = q THEN 3
    ELSE IF Contains(name, q) THEN 2
    ELSE IF EveryTokenIn(name, q) THEN 1
    ELSE 0

\* the position in the catalog of the product a result was made from
CatalogPos(r) == CHOOSE k \in 1..Len(products) : products[k].barcode = r.barcode

Listed(p) ==
    \E i \in 1..Len(mres.out.results) : mres.out.results[i].barcode = p.barcode

\* C11: every product matchByName returns carries the score 3 when its
\* upper-cased name equals the trimmed upper-cased query, else 2 when the name
\* contains the whole query, else 1 when every whitespace-separated token of
\* the query is a substring of the name; a product with none of these is
\* never returned, and with a limit that does not truncate every product with
\* one of them is returned.
C11_NameScores ==
    NameCallReturned =>
        /\ \A i \in 1..Len(mres.out.results) :
               LET r == mres.out.results[i]
               IN  /\ \E k \in 1..Len(products) : products[k].barcode = r.barcode
                   /\ r.name = products[CatalogPos(r)].name
                   /\ r.score = RankOf(toUpperCase(r.name), UpperQuery)
                   /\ r.score > 0
        /\ mres.limit >= Len(products) =>
               \A k \in 1..Len(products) :
                   RankOf(UpperName(products[k]), UpperQuery) > 0
                       => Listed(products[k])

C11_Witness ==
    /\ NameCallReturned
    /\ \E i \in 1..Len(mres.out.results) : mres.out.results[i].score = 1
    /\ \E k \in 1..Len(products) : ~Listed(products[k])
    /\ mres.limit >= Len(products)

NumScored ==
    Cardinality({ k \in 1..Len(products) :
                    RankOf(UpperName(products[k]), UpperQuery) > 0 })

\* C12: the list matchByName(query, limit) returns holds min(limit, number of
\* scored products) products, in non-increasing score order with equal scores
\* in catalog order, and every scored product left out scores no more than
\* every product kept and, at an equal score, comes later in the catalog.
C12_NameOrderAndLimit ==
    NameCallReturned =>
        LET R == mres.out.results
        IN  /\ Len(R) = Min(mres.limit, NumScored)
            /\ \A i \in 1..Len(R) : \A j \in 1..Len(R) :
                   i < j => \/ R[i].score > R[j].score
                            \/ /\ R[i].score = R[j].score
                               /\ CatalogPos(R[i]) < CatalogPos(R[j])
            /\ \A k \in 1..Len(products) :
                   LET sc == RankOf(UpperName(products[k]), UpperQuery)
                   IN  (sc > 0 /\ ~Listed(products[k])) =>
                           \A i \in 1..Len(R) :
                               \/ R[i].score > sc
                               \/ R[i].score = sc /\ CatalogPos(R[i]) < k

C12_Witness ==
    /\ NameCallReturned
    /\ mres.limit = 1
    /\ NumScored = 2
    /\ Len(mres.out.results) = 1
    /\ CatalogPos(mres.out.results[1]) = 2


PanadolPair ==
    /\ Len(products) = 2
    /\ products[1].name = Chars("PANADOL BABY")
    /\ products[2].name = Chars("PANADOL EXTRA")

PanadolQueried ==
    /\ PanadolPair
    /\ NameCallReturned
    /\ mres.query = Chars("panadol")
    /\ mres.limit >= 2

PanadolBoth(sc) ==
    /\ Len(mres.out.results) = 2
    /\ \A i \in 1..2 :
           /\ mres.out.results[i].barcode = products[i].barcode
           /\ mres.out.results[i].name = products[i].name
           /\ mres.out.results[i].score = sc

\* C13 (as stated): with the catalog names 'PANADOL BABY' and 'PANADOL EXTRA'
\* in that order, matchByName('panadol') returns both products in that order,
\* each with score 1.
C13_PanadolScoreOne == PanadolQueried => PanadolBoth(1)

\* C13: with the catalog names 'PANADOL BABY' and 'PANADOL EXTRA' in that
\* order, matchByName('panadol') returns both products in that order, each
\* with score 2, the rank of a name that contains the whole query.
C13_PanadolScoreTwo == PanadolQueried => PanadolBoth(2)

C13_Witness == PanadolQueried /\ mres.limit = DefaultLimit


(* matchSeries *)

SeriesCallReturned == mres.op = "matchSeries" /\ mres.out.type = "returned"

IsPrefixOf(a, b) == Len(a) <= Len(b) /\ \A i \in 1..Len(a) : a[i] = b[i]

\* the catalog positions whose code is in prefix relation with the query
InPrefixRelation ==
    { k \in 1..Len(products) :
        \/ IsPrefixOf(trim(mres.query), trim(products[k].barcode))
        \/ IsPrefixOf(trim(products[k].barcode), trim(mres.query)) }

\* C14: matchSeries(code, limit) returns, in catalog order, exactly the first
\* min(limit, n) of the n products whose catalog code is in prefix relation
\* with the trimmed query; for every limit, 0 included, it returns no more
\* than limit products, each of them in that prefix relation.
C14_SeriesFirstMin ==
    SeriesCallReturned =>
        LET R == mres.out.results
        IN  /\ Len(R) = Min(mres.limit, Cardinality(InPrefixRelation))
            /\ Len(R) <= mres.limit
            /\ \A i \in 1..Len(R) :
                   \E k \in InPrefixRelation :
                       /\ R[i] = products[k]
                       /\ Cardinality({ j \in InPrefixRelation : j < k }) = i - 1


(* readiness *)

MatcherCalled == mres.op \in {"matchExact", "matchSeries", "matchByName", "smartMatch"}

\* C15: the matcher starts not ready; it becomes ready only in a step in which
\* init() has read the catalog and indexed it, never by a failed init(), and
\* it never stops being ready; every call of matchExact, matchSeries,
\* matchByName or smartMatch throws the not-initialised error when the matcher
\* is not ready and returns when it is.
C15_ThrowsUntilInit ==
    /\ ~ready
    /\ [](MatcherCalled => (mres.out = Thrown <=> ~ready))
    /\ [][ /\ ready => ready'
           /\ (~ready /\ ready') =>
                  /\ products' = master
                  /\ barcodeMap' = IndexBarcodes(master, EmptyMap) ]_vars

C15_Witness ==
    /\ ~ready
    /\ master # <<>>
    /\ mres.op = "matchByName"
    /\ mres.out = Thrown


-----------------------------------------------------------------------------
(* Index rebuilds and match handlers on the event loop *)

MaxPending == 2

RebuildPool ==
    << Product("06291109120100", "PANADOL BABY", "220219715"),
       Product("06291109120117", "PANADOL EXTRA", "") >>

\* the contents the master store goes through: empty, one record, two records
RebuildCatalogs == { SubSeq(RebuildPool, 1, n) : n \in 0..Len(RebuildPool) }

AppItems(c) == [i \in 1..Len(c) |-> AppItem(c[i])]

RebuildKinds == {"tracker", "matcher", "app"}

PageOf(k) == IF k = "app" THEN "oasis" ELSE "backwall"

\* the store a rebuild of kind k reads
StoreOf(k, m, am) == IF k = "app" THEN am ELSE m

\* a handler starts an event-loop turn at any time
Dispatchable_anytime(t, r) == TRUE

\* a handler or a continuation starts only when no other code is running: the
\* statements after an await run to their end, or to the next await, unbroken
Dispatchable(t, r) == t = NoTask /\ r = "idle"

Request(k) == [kind |-> k, read |-> FALSE, data |-> <<>>]

Answered(k, d) == [kind |-> k, read |-> TRUE, data |-> d]

\* uploadMasterFile, saveEdit, saveMasterData: the store gets another content
StoreWrite ==
    /\ \/ \E c \in RebuildCatalogs :
              /\ page = "backwall" /\ c # master
              /\ master' = c /\ appMaster' = appMaster
       \/ \E c \in RebuildCatalogs :
              /\ page = "oasis" /\ AppItems(c) # appMaster
              /\ appMaster' = AppItems(c) /\ master' = master
    /\ UNCHANGED <<matcherVars, masterIndex, appIndex, input, dres, scan,
                   expiryVars, loopVars, pinVars, opVars>>

\* refreshMasterStats(), matcher.init(), loadMasterData() up to their await
StartRebuild ==
    \E k \in RebuildKinds :
        /\ PageOf(k) = page
        /\ Dispatchable(task, reader)
        /\ BagCardinality(pending) < MaxPending
        /\ pending' = pending (+) SetToBag({Request(k)})
        /\ UNCHANGED <<master, matcherVars, trackerVars, expiryVars,
                       task, built, reader, page, pinVars, opVars>>

\* the read transaction of a waiting rebuild takes the store as it is
StoreRead ==
    \E k \in RebuildKinds :
        /\ BagIn(Request(k), pending)
        /\ pending' = (pending (-) SetToBag({Request(k)}))
                          (+) SetToBag({Answered(k, StoreOf(k, master, appMaster))})
        /\ UNCHANGED <<master, matcherVars, trackerVars, expiryVars,
                       task, built, reader, page, pinVars, opVars>>

\* the read is rejected: init() and loadMasterData() log it, nothing is assigned
ReadFail ==
    \E k \in RebuildKinds :
        /\ BagIn(Request(k), pending)
        /\ Dispatchable(task, reader)
        /\ pending' = pending (-) SetToBag({Request(k)})
        /\ UNCHANGED <<master, matcherVars, trackerVars, expiryVars,
                       task, built, reader, page, pinVars, opVars>>

FirstPc(k) ==
    IF k = "tracker" THEN "build" ELSE IF k = "matcher" THEN "assign" ELSE "clearExact"

\* a build that goes on filling the index that is in use
FreshIndex_live(live) == live

\* const idx = { exact: new Map(), ... }: buildMasterIndex fills new maps
FreshIndex(live) == EmptyIndex

\* the await returns: the continuation of the rebuild starts
Resume ==
    \E e \in BagToSet(pending) :
        /\ e.read
        /\ Dispatchable(task, reader)
        /\ pending' = pending (-) SetToBag({e})
        /\ task' = [kind |-> e.kind, pc |-> FirstPc(e.kind), data |-> e.data,
                    rest |-> e.data, idx |-> FreshIndex(masterIndex)]
        /\ UNCHANGED <<master, matcherVars, trackerVars, expiryVars,
                       built, reader, page, pinVars, opVars>>

\* buildMasterIndex(master): one turn of the loop over a local idx
TrackerBuildItem ==
    /\ task.kind = "tracker" /\ task.pc = "build"
    /\ task' = IF task.rest = <<>>
               THEN [task EXCEPT !.pc = "assign"]
               ELSE [task EXCEPT !.idx = IndexItem(task.idx, Head(task.rest)),
                                 !.rest = Tail(task.rest)]
    /\ UNCHANGED <<master, matcherVars, trackerVars, expiryVars,
                   pending, built, reader, page, pinVars, opVars>>

\* State.masterIndex = buildMasterIndex(master)
TrackerAssign ==
    /\ task.kind = "tracker" /\ task.pc = "assign"
    /\ masterIndex' = task.idx
    /\ built' = [built EXCEPT !.tracker = task.data]
    /\ task' = NoTask
    /\ UNCHANGED <<master, matcherVars, appMaster, appIndex, input, dres, scan,
                   expiryVars, pending, reader, page, pinVars, opVars>>

\* this.products = await DB.getAllMaster()
MatcherAssign ==
    /\ task.kind = "matcher" /\ task.pc = "assign"
    /\ products' = task.data
    /\ task' = [task EXCEPT !.pc = "clear"]
    /\ UNCHANGED <<master, barcodeMap, ready, mres, trackerVars, expiryVars,
                   pending, built, reader, page, pinVars, opVars>>

\* this._barcodeMap.clear()
MatcherClear ==
    /\ task.kind = "matcher" /\ task.pc = "clear"
    /\ barcodeMap' = EmptyMap
    /\ task' = [task EXCEPT !.pc = "fill"]
    /\ UNCHANGED <<master, products, ready, mres, trackerVars, expiryVars,
                   pending, built, reader, page, pinVars, opVars>>

\* one turn of init()'s loop, and this._ready = true after the last
MatcherFillItem ==
    /\ task.kind = "matcher" /\ task.pc = "fill"
    /\ IF task.rest = <<>>
       THEN /\ ready' = TRUE
            /\ built' = [built EXCEPT !.matcher = task.data]
            /\ task' = NoTask
            /\ UNCHANGED barcodeMap
       ELSE /\ barcodeMap' = IndexBarcodes(<<Head(task.rest)>>, barcodeMap)
            /\ task' = [task EXCEPT !.rest = Tail(task.rest)]
            /\ UNCHANGED <<ready, built>>
    /\ UNCHANGED <<master, products, mres, trackerVars, expiryVars,
                   pending, reader, page, pinVars, opVars>>

\* State.masterIndex.exact.clear()
AppClearExact ==
    /\ task.kind = "app" /\ task.pc = "clearExact"
    /\ appIndex' = [appIndex EXCEPT !.exact = EmptyMap]
    /\ task' = [task EXCEPT !.pc = "clearLast8"]
    /\ UNCHANGED <<master, matcherVars, masterIndex, appMaster, input, dres, scan,
                   expiryVars, pending, built, reader, page, pinVars, opVars>>

\* State.masterIndex.last8.clear()
AppClearLast8 ==
    /\ task.kind = "app" /\ task.pc = "clearLast8"
    /\ appIndex' = [appIndex EXCEPT !.last8 = EmptyMap]
    /\ task' = [task EXCEPT !.pc = "fill"]
    /\ UNCHANGED <<master, matcherVars, masterIndex, appMaster, input, dres, scan,
                   expiryVars, pending, built, reader, page, pinVars, opVars>>

\* one turn of data.forEach, and updateMasterStats() after the last
AppFillItem ==
    /\ task.kind = "app" /\ task.pc = "fill"
    /\ IF task.rest = <<>>
       THEN /\ built' = [built EXCEPT !.app = task.data]
            /\ task' = NoTask
            /\ UNCHANGED appIndex
       ELSE /\ appIndex' = app_IndexItem(appIndex, Head(task.rest))
            /\ task' = [task EXCEPT !.rest = Tail(task.rest)]
            /\ UNCHANGED built
    /\ UNCHANGED <<master, matcherVars, masterIndex, appMaster, input, dres, scan,
                   expiryVars, pending, reader, page, pinVars, opVars>>

\* a scan or a query is delivered: processScan or smartMatch starts
ReaderStart ==
    \E k \in RebuildKinds :
        /\ PageOf(k) = page
        /\ Dispatchable(task, reader)
        /\ reader' = k
        /\ UNCHANGED <<master, matcherVars, trackerVars, expiryVars,
                       task, pending, built, page, pinVars, opVars>>

\* the handler reads the index: matchProduct, or the matcher's smartMatch
ReaderMatch ==
    /\ reader # "idle"
    /\ reader' = "idle"
    /\ scan' = IF reader = "tracker"
               THEN [scan EXCEPT !.tracker = <<processScanMatch(tz, masterIndex, input)>>]
               ELSE IF reader = "app"
               THEN [scan EXCEPT !.app = <<app_processScanMatch(tz, clock, appIndex, input)>>]
               ELSE scan
    /\ mres' = IF reader = "matcher"
               THEN [op |-> "smartMatch", query |-> input, limit |-> DefaultLimit,
                     out |-> smartMatch(ready, products, barcodeMap, input, DefaultLimit)]
               ELSE mres
    /\ UNCHANGED <<master, products, barcodeMap, ready, masterIndex, appMaster,
                   appIndex, input, dres, expiryVars, task, pending, built, page,
                   pinVars, opVars>>

RebuildCodes == { Chars("06291109120117") }

InitRebuild ==
    /\ page \in {"backwall", "oasis"}
    /\ \E c \in RebuildCatalogs :
           /\ master = (IF page = "backwall" THEN c ELSE <<>>)
           /\ appMaster = (IF page = "oasis" THEN AppItems(c) ELSE <<>>)
    /\ input \in RebuildCodes
    /\ masterIndex = EmptyIndex /\ appIndex = EmptyAppIndex
    /\ dres = NoDecode /\ scan = NoScan
    /\ task = NoTask /\ pending = EmptyBag /\ reader = "idle"
    /\ built = [tracker |-> <<>>, app |-> <<>>, matcher |-> <<>>]
    /\ IdleMatcher /\ IdleExpiry /\ IdlePin /\ IdleOps

NextRebuild ==
    \/ StoreWrite \/ StartRebuild \/ StoreRead \/ ReadFail \/ Resume
    \/ TrackerBuildItem \/ TrackerAssign
    \/ MatcherAssign \/ MatcherClear \/ MatcherFillItem
    \/ AppClearExact \/ AppClearLast8 \/ AppFillItem
    \/ ReaderStart \/ ReaderMatch

SpecRebuild == InitRebuild /\ [][NextRebuild]_vars

\* the index a handler of kind k reads is the one built from the catalog read
\* of the last rebuild that finished
IndexComplete(k) ==
    IF k = "tracker" THEN masterIndex = buildMasterIndex(built.tracker)
    ELSE IF k = "app" THEN appIndex = app_loadMasterData(built.app)
    ELSE ready => /\ products = built.matcher
                  /\ barcodeMap = IndexBarcodes(built.matcher, EmptyMap)

\* C16: across every interleaving of rebuilds (refreshMasterStats,
\* loadMasterData, PharmacyMatcher.init), store writes and scan/match
\* handlers, a running match handler reads an index that was fully built from
\* one complete catalog read, the one of the last rebuild that finished, never
\* an index that is cleared or only partly filled.
C16_ReadersSeeCompleteIndex == reader # "idle" => IndexComplete(reader)

\* a match handler runs after an in-place rebuild that replaced a non-empty
\* index, of which the cleared and the partly filled states were passed through
C16_Witness ==
    /\ reader = "app"
    /\ built.app # <<>>
    /\ Len(built.app) = 2
    /\ appIndex = app_loadMasterData(built.app)
    /\ \E e \in BagToSet(pending) : e.read /\ e.data # built.app
    /\ scan.app # None


(* rebuilding from the same catalog *)

RebuildProbes ==
    { Chars("06291109120117"), Chars("6291109120100"), Chars("12341109120117"),
      Chars("220219715"), Chars("(01)06291109120100(10)B7"), Chars("99999999") }

SameCatalogAgain ==
    /\ task.kind = "tracker" /\ task.pc = "assign"
    /\ task.data = built.tracker
    /\ masterIndex = buildMasterIndex(built.tracker)

\* C17: when refreshMasterStats replaces an index that was built from a
\* catalog by the index built again from the identical catalog, matchProduct
\* returns the same name and type for every code as before.
C17_RebuildKeepsMatches ==
    [][ SameCatalogAgain =>
            \A c \in RebuildProbes :
                processScanMatch(tz, masterIndex', c).match
                    = processScanMatch(tz, masterIndex, c).match ]_vars

C17_Witness ==
    /\ SameCatalogAgain
    /\ Len(built.tracker) = 2
    /\ processScanMatch(tz, masterIndex, Chars("12341109120117")).match.type = "LAST8"
    /\ processScanMatch(tz, masterIndex, Chars("6291109120100")).match.type = "EXACT"


(* unrecognised input *)

\* the string the decoders test: trimmed
TestedCode == trim(input)

\* none of the three formats: no string, or an empty one, or a string that has
\* no parenthesis, does not start with 01 and 14 digits, and is no code of 8 to
\* 14 digits
Unrecognised ==
    \/ ~IsString(input)
    \/ input = <<>>
    \/ /\ ~Contains(TestedCode, <<"(">>)
       /\ ~(/\ Len(TestedCode) >= 16
            /\ SubSeq(TestedCode, 1, 2) = <<"0", "1">>
            /\ \A i \in 3..16 : IsDigit(TestedCode[i]))
       /\ ~(/\ Len(TestedCode) \in 8..14
            /\ \A i \in 1..Len(TestedCode) : IsDigit(TestedCode[i]))

AllEmpty(r) ==
    /\ r.gtin14 = <<>> /\ r.gtin13 = <<>> /\ r.batch = <<>> /\ r.serial = <<>>
    /\ r.qty = 1

\* C18: parseGS1 of both trackers returns a record for every input value, and
\* for an input in which none of the three formats is recognised the record
\* is all empty: gtin14, gtin13, batch, serial and expiry empty, quantity 1.
C18_UnrecognisedIsAllEmpty ==
    Unrecognised =>
        /\ dres.tracker # None =>
               /\ AllEmpty(dres.tracker[1])
               /\ dres.tracker[1].expiryISO = <<>>
        /\ dres.app # None =>
               /\ AllEmpty(dres.app[1])
               /\ dres.app[1].expiry = None


(* keys of the exact index *)

NormalizedCode(r) == SelectSeq(r.barcode, IsDigit)

PadTo14(N) == IF Len(N) >= 14 THEN N ELSE LeftPad14(N)

\* N, N padded to 14 digits, and the padded form less its one leading zero
CodeKeys(N) ==
    {N, PadTo14(N)} \cup (IF PadTo14(N)[1] = "0" THEN {Tail(PadTo14(N))} ELSE {})

\* N from its first digit that is not a zero
WithoutLeadingZeros(N) ==
    IF \A i \in 1..Len(N) : N[i] = "0" THEN <<>>
    ELSE LET f == CHOOSE i \in 1..Len(N) :
                      N[i] # "0" /\ \A j \in 1..(i - 1) : N[j] = "0"
         IN  SubSeq(N, f, Len(N))

\* every key under which the build registers the record in the exact index
RegisteredKeys(r) ==
    IF r.name = <<>> THEN {}
    ELSE (IF NormalizedCode(r) = <<>> THEN {}
          ELSE CodeKeys(NormalizedCode(r))
               \cup (IF Len(WithoutLeadingZeros(NormalizedCode(r))) >= 5
                     THEN {WithoutLeadingZeros(NormalizedCode(r))} ELSE {}))
         \cup (IF trim(r.rms) = <<>> THEN {} ELSE {trim(r.rms)})

LastRegistrar(k) ==
    CHOOSE j \in 1..Len(master) :
        /\ k \in RegisteredKeys(master[j])
        /\ \A i \in (j + 1)..Len(master) : k \notin RegisteredKeys(master[i])

IndexBuilt == masterIndex # EmptyIndex

\* C20: after buildMasterIndex over the catalog, for every record that has a
\* name and a non-empty digits-only code N, the exact index has the keys N, N
\* zero-padded to 14 digits and, when the padded form starts with '0', the
\* padded form less that zero, and each of them maps to the name of the last
\* catalog record that registered the key (by its code, its zero-stripped code
\* or its RMS code).
C20_ExactKeysLastWins ==
    IndexBuilt =>
        \A i \in 1..Len(master) :
            (master[i].name # <<>> /\ NormalizedCode(master[i]) # <<>>) =>
                \A k \in CodeKeys(NormalizedCode(master[i])) :
                    /\ MapHas(masterIndex.exact, k)
                    /\ masterIndex.exact[k] = master[LastRegistrar(k)].name

\* a code key of the first record was registered again by the second, under
\* another name
C20_Witness ==
    /\ IndexBuilt
    /\ Len(master) = 2
    /\ \E k \in CodeKeys(NormalizedCode(master[1])) :
           /\ k \in RegisteredKeys(master[2])
           /\ masterIndex.exact[k] = master[2].name
           /\ master[1].name # master[2].name
           /\ master[1].name # <<>>


-----------------------------------------------------------------------------
(* Oasis Tracker: PIN-protected editing *)

PIN == Chars("9633")

PIN_TIMEOUT == 5 * 60 * 1000

MaxTicks == 4
MaxExecuted == 2

\* the clock readings, in milliseconds: a start more than PIN_TIMEOUT after
\* the epoch (within 32 bits), and steps that divide PIN_TIMEOUT
StartTime == 1000000000
TickMs == 100000

\* the keys of the pad that are pressed: digits and 'back'
PinKeys == {"9", "6", "3", "1", "back"}

\* requirePin(() => openEditModal(entry)), requirePin(() => showConfirm(...))
ProtectedActions == {"openEditModal", "clearAll"}

\* a validity test that still accepts a verification PIN_TIMEOUT old
isPinValid_inclusive(nowMs, last) == nowMs - last <= PIN_TIMEOUT

isPinValid(nowMs, last) == nowMs - last < PIN_TIMEOUT

\* what the log keeps of a callback that ran
Ran(a, via, age, ok) == [action |-> a, via |-> via, age |-> age, entered |-> ok]

\* time passes
Tick ==
    /\ wallClock < StartTime + MaxTicks * TickMs
    /\ wallClock' = wallClock + TickMs
    /\ UNCHANGED <<master, matcherVars, trackerVars, expiryVars, loopVars, opVars,
                   pinCallback, pinInput, lastPinSuccess, pinModal, executed>>

\* a click on a history item or on Clear All: requirePin(callback)
RequirePin ==
    \E a \in ProtectedActions :
        /\ Len(executed) < MaxExecuted
        /\ IF isPinValid(wallClock, lastPinSuccess)
           THEN /\ executed' = Append(executed,
                        Ran(a, "valid", wallClock - lastPinSuccess, pinInput = PIN))
                /\ UNCHANGED <<pinCallback, pinInput, pinModal>>
           ELSE /\ pinCallback' = <<a>>
                /\ pinInput' = <<>>
                /\ pinModal' = [show |-> TRUE, error |-> FALSE]
                /\ UNCHANGED executed
        /\ UNCHANGED <<master, matcherVars, trackerVars, expiryVars, loopVars, opVars,
                       lastPinSuccess, wallClock>>

\* State.pinInput after the key, before the length test
KeyApplied(digits, key) ==
    IF key = "back" THEN SubSeq(digits, 1, Len(digits) - 1)
    ELSE IF Len(digits) < 4 THEN Append(digits, key)
    ELSE digits

\* a click on a key of the pad: onPinKey(key), with verifyPin() at four digits
OnPinKey ==
    \E key \in PinKeys :
        /\ pinModal.show
        /\ IF Len(KeyApplied(pinInput, key)) # 4
           THEN /\ pinInput' = KeyApplied(pinInput, key)
                /\ UNCHANGED <<pinCallback, lastPinSuccess, pinModal, executed>>
           ELSE IF KeyApplied(pinInput, key) = PIN
           THEN /\ pinInput' = KeyApplied(pinInput, key)
                /\ lastPinSuccess' = wallClock
                /\ pinModal' = [pinModal EXCEPT !.show = FALSE]
                /\ executed' = IF pinCallback # None
                               THEN Append(executed,
                                        Ran(pinCallback[1], "verified", 0,
                                            KeyApplied(pinInput, key) = PIN))
                               ELSE executed
                /\ pinCallback' = None
           ELSE /\ pinInput' = <<>>
                /\ pinModal' = [pinModal EXCEPT !.error = TRUE]
                /\ UNCHANGED <<pinCallback, lastPinSuccess, executed>>
        /\ UNCHANGED <<master, matcherVars, trackerVars, expiryVars, loopVars, opVars,
                       wallClock>>

InitPin ==
    /\ pinCallback = None /\ pinInput = <<>> /\ lastPinSuccess = 0
    /\ wallClock = StartTime
    /\ pinModal = [show |-> FALSE, error |-> FALSE]
    /\ executed = <<>>
    /\ master = <<>>
    /\ IdleMatcher /\ IdleTracker /\ IdleExpiry /\ IdleLoop /\ IdleOps

NextPin == Tick \/ RequirePin \/ OnPinKey

SpecPin == InitPin /\ [][NextPin]_vars

\* a callback ran on a verification that was made now, with the right digits,
\* or on one made less than PIN_TIMEOUT before
RanVerified(e) ==
    \/ e.via = "verified" /\ e.entered /\ e.age = 0
    \/ e.via = "valid" /\ e.age >= 0 /\ e.age < PIN_TIMEOUT

\* C19: a protected action passed to requirePin runs only if the correct
\* 4-digit PIN was verified less than PIN_TIMEOUT before or is verified now;
\* a wrong 4-digit PIN (three digits entered, then the error shown and the
\* digits cleared) runs nothing and keeps the action pending behind the modal,
\* which never holds four digits; a verification runs the pending action once
\* and leaves nothing pending.
C19_PinGuardsActions ==
    /\ [](\A i \in 1..Len(executed) : RanVerified(executed[i]))
    /\ [](pinModal.show => (Len(pinInput) < 4 /\ pinCallback # None))
    /\ [](~pinModal.show => pinCallback = None)
    /\ [][ /\ Len(executed') <= Len(executed) + 1
           /\ (pinModal.show /\ executed' # executed) =>
                  /\ executed' = Append(executed, Ran(pinCallback[1], "verified", 0, TRUE))
                  /\ pinInput' = PIN
                  /\ pinCallback' = None
           /\ (pinModal.show /\ Len(pinInput) = 3 /\ pinInput' = <<>>
                  /\ pinModal'.error) =>
                  /\ executed' = executed
                  /\ pinCallback' = pinCallback
                  /\ pinModal'.show ]_vars

\* after a wrong PIN and then the right one the pending action ran, and a
\* second action ran on the verification that was still valid
C19_Witness ==
    /\ Len(executed) = 2
    /\ executed[1].via = "verified"
    /\ executed[2].via = "valid"
    /\ executed[2].age = 2 * TickMs
    /\ pinModal.error


(* the last-eight-digits index *)

EndsIn(c, s) == Len(c) >= Len(s) /\ SubSeq(c, Len(c) - Len(s) + 1, Len(c)) = s

\* the Backwall record is indexed under its last 8 digits: it has a name and a
\* digits-only code of 8 digits or more
TrackerIndexed(r) == r.name # <<>> /\ Len(NormalizedCode(r)) >= 8

TrackerEntry(r) == [barcode |-> NormalizedCode(r), name |-> r.name]

RECURSIVE TrackerSuffixList(_, _)
TrackerSuffixList(cat, s) ==
    IF cat = <<>> THEN <<>>
    ELSE (IF TrackerIndexed(Head(cat)) /\ EndsIn(NormalizedCode(Head(cat)), s)
          THEN <<TrackerEntry(Head(cat))>> ELSE <<>>)
         \o TrackerSuffixList(Tail(cat), s)

\* the Oasis item's code: its gtin, left-padded to 14
AppCode(item) == IF Len(item.gtin) >= 14 THEN item.gtin ELSE LeftPad14(item.gtin)

RECURSIVE AppSuffixList(_, _)
AppSuffixList(cat, s) ==
    IF cat = <<>> THEN <<>>
    ELSE (IF EndsIn(AppCode(Head(cat)), s) THEN <<Head(cat)>> ELSE <<>>)
         \o AppSuffixList(Tail(cat), s)

\* the 8-digit suffixes of the codes of a catalog, and the keys of an index
Suffixes(codes) == { SubSeq(c, Len(c) - 7, Len(c)) : c \in {x \in codes : Len(x) >= 8} }

TrackerSuffixes ==
    Suffixes({ NormalizedCode(master[i]) : i \in 1..Len(master) })
        \cup DOMAIN masterIndex.last8

AppSuffixes ==
    Suffixes({ AppCode(appMaster[i]) : i \in 1..Len(appMaster) })
        \cup DOMAIN appIndex.last8

AppIndexBuilt == appIndex # EmptyAppIndex

\* C21: after the index is built from the catalog, for every 8-digit suffix s
\* the list last8[s] holds exactly one entry for every indexed record whose
\* normalized code ends in s, in catalog order (and there is no list for a
\* suffix no indexed record has): a later record with the same suffix is
\* appended, it replaces nothing.
C21_Last8KeepsCollisions ==
    /\ IndexBuilt =>
           \A s \in TrackerSuffixes :
               IF TrackerSuffixList(master, s) = <<>>
               THEN ~MapHas(masterIndex.last8, s)
               ELSE /\ MapHas(masterIndex.last8, s)
                    /\ masterIndex.last8[s] = TrackerSuffixList(master, s)
    /\ AppIndexBuilt =>
           \A s \in AppSuffixes :
               IF AppSuffixList(appMaster, s) = <<>>
               THEN ~MapHas(appIndex.last8, s)
               ELSE /\ MapHas(appIndex.last8, s)
                    /\ appIndex.last8[s] = AppSuffixList(appMaster, s)

\* both indexes hold a suffix under which two records are listed
C21_Witness ==
    /\ IndexBuilt /\ AppIndexBuilt
    /\ \E s \in DOMAIN masterIndex.last8 :
           /\ Len(masterIndex.last8[s]) = 2
           /\ masterIndex.last8[s][1].barcode # masterIndex.last8[s][2].barcode
    /\ \E s \in DOMAIN appIndex.last8 : Len(appIndex.last8[s]) = 2

-----------------------------------------------------------------------------
(* Decoding of the parenthesized AI syntax *)

AiTags == {"(01)", "(17)", "(10)", "(21)", "(30)"}

Occurrences(c, tag) == {i \in 0..Len(c) : StartsWithAt(c, Chars(tag), i)}

\* a string with a '(' in which no AI group occurs twice
Grouped(c) ==
    /\ IsString(c)
    /\ \E i \in 1..Len(c) : c[i] = "("
    /\ \A t \in AiTags : Cardinality(Occurrences(c, t)) <= 1

HasGroup(c, tag) == Occurrences(c, tag) # {}

\* what follows the tag, to the end of the string
AfterTag(c, tag) == SubstringFrom(c, indexOf(c, Chars(tag)) + Len(Chars(tag)))

RECURSIVE UpTo(_, _)
UpTo(s, stops) ==
    IF s = <<>> \/ Head(s) \in stops THEN <<>> ELSE <<Head(s)>> \o UpTo(Tail(s), stops)

RECURSIVE DigitPrefix(_)
DigitPrefix(s) ==
    IF s = <<>> \/ ~IsDigit(Head(s)) THEN <<>> ELSE <<Head(s)>> \o DigitPrefix(Tail(s))

GroupText(c, tag, stops) == UpTo(AfterTag(c, tag), stops)
GroupDigits(c, tag) == DigitPrefix(AfterTag(c, tag))

\* the quantity the digits after (30) stand for
QtyOf(c) ==
    IF ~HasGroup(c, "(30)") \/ GroupDigits(c, "(30)") = <<>> THEN 1
    ELSE IF parseInt(GroupDigits(c, "(30)")) = 0 THEN 1
    ELSE parseInt(GroupDigits(c, "(30)"))

\* gtin14, expiry and quantity of a Backwall Tracker decode r of c
TrackerFixedFields(c, r) ==
    /\ HasGroup(c, "(01)") /\ Len(GroupDigits(c, "(01)")) >= 14
         => r.gtin14 = SubSeq(GroupDigits(c, "(01)"), 1, 14)
    /\ HasGroup(c, "(17)") /\ Len(GroupDigits(c, "(17)")) >= 6
         => <<r.expiryISO, r.expiryDDMMYY, r.expiryDisplay>>
              = <<parseExpiryDate(tz, SubSeq(GroupDigits(c, "(17)"), 1, 6)).iso,
                  parseExpiryDate(tz, SubSeq(GroupDigits(c, "(17)"), 1, 6)).ddmmyy,
                  parseExpiryDate(tz, SubSeq(GroupDigits(c, "(17)"), 1, 6)).display>>
    /\ r.qty = QtyOf(c)

\* the same of an Oasis Tracker decode
AppFixedFields(c, r) ==
    /\ HasGroup(c, "(01)") /\ Len(GroupDigits(c, "(01)")) >= 14
         => r.gtin14 = SubSeq(GroupDigits(c, "(01)"), 1, 14)
    /\ HasGroup(c, "(17)") /\ Len(GroupDigits(c, "(17)")) >= 6
         => <<r.expiry, r.expiryFormatted>>
              = <<app_parseExpiryDate(tz, SubSeq(GroupDigits(c, "(17)"), 1, 6)).iso,
                  app_parseExpiryDate(tz, SubSeq(GroupDigits(c, "(17)"), 1, 6)).formatted>>
    /\ r.qty = QtyOf(c)

\* batch and serial are the group's text up to a stop character, as trimmed
TextFields(c, r, stops, asTrimmed) ==
    /\ HasGroup(c, "(10)")
         => r.batch = IF asTrimmed THEN trim(GroupText(c, "(10)", stops))
                      ELSE GroupText(c, "(10)", stops)
    /\ HasGroup(c, "(21)")
         => r.serial = IF asTrimmed THEN trim(GroupText(c, "(21)", stops))
                       ELSE GroupText(c, "(21)", stops)

QtyAtLeastOne ==
    /\ dres.tracker # None => dres.tracker[1].qty \in Nat \ {0}
    /\ dres.app # None => dres.app[1].qty \in Nat \ {0}

-----------------------------------------------------------------------------
(* Decoding of the concatenated AI syntax *)

\* '01' + 14 digits + '17' + 6 digits + '10' + a batch of plain characters
Concatenated(c) ==
    /\ IsString(c) /\ Len(c) > 26
    /\ SubSeq(c, 1, 2) = Chars("01") /\ AllDigits(SubSeq(c, 3, 16))
    /\ SubSeq(c, 17, 18) = Chars("17") /\ AllDigits(SubSeq(c, 19, 24))
    /\ SubSeq(c, 25, 26) = Chars("10")
    /\ \A i \in 27..Len(c) : c[i] \notin {GS, "|", "(", ")"} /\ ~IsSpace(c[i])

\* the positions of b where one of the AI tags 21, 30, 37 starts
TagStarts(b) ==
    {i \in 0..Len(b) : \E ai \in {"21", "30", "37"} : StartsWithAt(b, Chars(ai), i)}

\* b up to the first AI tag in it, b in full when there is none
DelimitedBatch(b) ==
    IF TagStarts(b) = {} THEN b
    ELSE Substring(b, 0, CHOOSE i \in TagStarts(b) : \A j \in TagStarts(b) : i <= j)

ConcatenatedFields(c, gtin14, batch) ==
    /\ gtin14 = SubSeq(c, 3, 16)
    /\ batch = DelimitedBatch(SubstringFrom(c, 26))

\* the Backwall Tracker delimits the batch of concatenated input at the next AI
TrackerBatchDelimited ==
    dres.tracker # None /\ Concatenated(input)
        => /\ ConcatenatedFields(input, dres.tracker[1].gtin14, dres.tracker[1].batch)
           /\ dres.tracker[1].expiryDisplay
                = parseExpiryDate(tz, SubSeq(input, 19, 24)).display

\* C23: for '01' + G + '17' + yymmdd + '10' + B, gtin14 is G, the expiry that
\* of yymmdd, and the batch is B up to the first AI tag 21, 30 or 37 in it
\* (B in full when it has none)
C23_BatchDelimitedAtNextAI ==
    /\ TrackerBatchDelimited
    /\ dres.app # None /\ Concatenated(input)
        => /\ ConcatenatedFields(input, dres.app[1].gtin14, dres.app[1].batch)
           /\ dres.app[1].expiryFormatted
                = app_parseExpiryDate(tz, SubSeq(input, 19, 24)).formatted

\* the Oasis Tracker's batch of concatenated input runs to the end of the code
AppBatchRunsOn ==
    dres.app # None /\ Concatenated(input)
        => dres.app[1].batch = SubstringFrom(input, 26)

-----------------------------------------------------------------------------
(* Expiry fields that name no date *)

\* the six digits after (17) of a parenthesized code
ExpiryDigits == SubSeq(GroupDigits(input, "(17)"), 1, 6)

HasExpiryDigits ==
    Grouped(input) /\ HasGroup(input, "(17)") /\ Len(GroupDigits(input, "(17)")) >= 6

\* a month outside 01-12, or a day other than 00 that the month does not have
NamesNoDate(yymmdd) ==
    \/ parseInt(SubSeq(yymmdd, 3, 4)) \notin 1..12
    \/ /\ parseInt(SubSeq(yymmdd, 5, 6)) # 0
       /\ parseInt(SubSeq(yymmdd, 5, 6))
             > DaysInMonth(2000 + parseInt(SubSeq(yymmdd, 1, 2)), parseInt(SubSeq(yymmdd, 3, 4)))

\* C24: when the six digits after AI 17 have a month outside 01-12 or a day
\* (not 00) beyond the last day of the month, the decoded record carries no
\* expiry: its ISO and display strings are empty
C24_InvalidExpiryIsEmpty ==
    HasExpiryDigits /\ NamesNoDate(ExpiryDigits) =>
        /\ dres.tracker # None =>
               dres.tracker[1].expiryISO = <<>> /\ dres.tracker[1].expiryDisplay = <<>>
        /\ dres.app # None =>
               dres.app[1].expiry = None /\ dres.app[1].expiryFormatted = <<>>

\* what the trackers return for such a field: the digits as they stand in the
\* Backwall Tracker, the rolled-over date in the Oasis Tracker
InvalidExpiryKept ==
    HasExpiryDigits /\ NamesNoDate(ExpiryDigits) =>
        /\ dres.tracker # None =>
               dres.tracker[1].expiryDisplay
                   = SubSeq(ExpiryDigits, 5, 6) \o <<"/">> \o SubSeq(ExpiryDigits, 3, 4)
                       \o Chars("/20") \o SubSeq(ExpiryDigits, 1, 2)
        /\ dres.app # None =>
               /\ dres.app[1].expiry # None
               /\ dres.app[1].expiryFormatted
                   = SubSeq(ExpiryDigits, 5, 6) \o <<"/">> \o SubSeq(ExpiryDigits, 3, 4)
                       \o Chars("/20") \o SubSeq(ExpiryDigits, 1, 2)

-----------------------------------------------------------------------------
(* Backwall Tracker: edits of a history entry and of a catalog record *)

\* store.put(item) on the master store, which is keyed by barcode
addMaster(store, item) ==
    getAllMaster({store[i] : i \in {j \in 1..Len(store) : store[j].barcode # item.barcode}}
                 \cup {item})

UnknownName == Chars("Product Name Unknown")

\* the entry processScan adds for a scan s (the outcome of processScanMatch)
EntryOf(s) ==
    [raw |-> s.code, gtin14 |-> s.parsed.gtin14, gtin13 |-> s.parsed.gtin13,
     name |-> IF s.match.name # <<>> THEN s.match.name ELSE UnknownName,
     matchType |-> s.match.type, batch |-> s.parsed.batch, qty |-> s.parsed.qty,
     rms |-> <<>>]

\* the values of a Set in the order of their first insertion
RECURSIVE Distinct(_)
Distinct(s) ==
    IF s = <<>> THEN <<>>
    ELSE LET d == Distinct(SubSeq(s, 1, Len(s) - 1))
         IN  IF \E i \in 1..Len(d) : d[i] = s[Len(s)] THEN d ELSE Append(d, s[Len(s)])

\* saveEdit's Set of barcodes: gtin14, gtin13 and the digits of raw when they
\* are 5 or more
EntryBarcodes(item) ==
    Distinct(SelectSeq(<<item.gtin14, item.gtin13,
                         IF Len(DigitsOnly(item.raw)) >= 5 THEN DigitsOnly(item.raw) ELSE <<>>>>,
                       LAMBDA x : x # <<>>))

EditCodes ==
    { Chars("06291109120117"), Chars("6291109120100"), Chars("(01)06291109120100(10)B1"),
      Chars("0012345") }

EditNames == { Chars("Nurofen"), Chars(" Panadol "), Chars("  ") }

EditRms == { <<>>, Chars("220219715"), Chars("R77") }

NoCalls == <<>>

AfterBarcodes(todo, rms) ==
    IF todo # <<>> THEN "addMaster" ELSE IF rms # <<>> THEN "addRms" ELSE "getAllMaster"

\* the number of edits a behaviour goes through
MaxEdits == 1

\* no call is in flight, and another edit may start
NoCallRunning == IF calls = NoCalls THEN TRUE ELSE calls[1].pc = "done" /\ calls[1].n < MaxEdits

NextCallNumber == IF calls = NoCalls THEN 1 ELSE calls[1].n + 1

\* saveEdit up to its first await: the form is read, an empty name returns
SaveEditStart ==
    \E nm \in EditNames, r \in EditRms :
        /\ NoCallRunning /\ history # <<>>
        /\ trim(nm) # <<>>
        /\ calls' = <<[op |-> "saveEdit", pc |-> "getHistory", id |-> 1, n |-> NextCallNumber,
                       name |-> trim(nm), rms |-> trim(r), item |-> <<>>, todo |-> <<>>]>>
        /\ UNCHANGED <<master, matcherVars, trackerVars, expiryVars, loopVars, pinVars,
                       history, cam>>

\* const item = await DB.getHistory(id); the item gets the form's values
SaveEditItem ==
    /\ calls # NoCalls /\ calls[1].op = "saveEdit" /\ calls[1].pc = "getHistory"
    /\ calls' = <<[calls[1] EXCEPT
                      !.pc = "updateHistory",
                      !.item = <<[history[calls[1].id] EXCEPT
                                     !.name = calls[1].name, !.rms = calls[1].rms,
                                     !.matchType = "MANUAL"]>>]>>
    /\ UNCHANGED <<master, matcherVars, trackerVars, expiryVars, loopVars, pinVars,
                   history, cam>>

\* await DB.updateHistory(item); the Set of barcodes is collected
SaveEditUpdateHistory ==
    /\ calls # NoCalls /\ calls[1].op = "saveEdit" /\ calls[1].pc = "updateHistory"
    /\ history' = [history EXCEPT ![calls[1].id] = calls[1].item[1]]
    /\ calls' = <<[calls[1] EXCEPT
                      !.todo = EntryBarcodes(calls[1].item[1]),
                      !.pc = AfterBarcodes(EntryBarcodes(calls[1].item[1]), calls[1].rms)]>>
    /\ UNCHANGED <<master, matcherVars, trackerVars, expiryVars, loopVars, pinVars, cam>>

\* await DB.addMaster({ barcode: bc, name, rms }) for the next barcode
SaveEditAddMaster ==
    /\ calls # NoCalls /\ calls[1].op = "saveEdit" /\ calls[1].pc = "addMaster"
    /\ master' = addMaster(master, [barcode |-> Head(calls[1].todo),
                                    name |-> calls[1].name, rms |-> calls[1].rms])
    /\ calls' = <<[calls[1] EXCEPT
                      !.todo = Tail(calls[1].todo),
                      !.pc = AfterBarcodes(Tail(calls[1].todo), calls[1].rms)]>>
    /\ UNCHANGED <<matcherVars, trackerVars, expiryVars, loopVars, pinVars, history, cam>>

\* if (rms) await DB.addMaster({ barcode: rms, name, rms })
SaveEditAddRms ==
    /\ calls # NoCalls /\ calls[1].op = "saveEdit" /\ calls[1].pc = "addRms"
    /\ master' = addMaster(master, [barcode |-> calls[1].rms,
                                    name |-> calls[1].name, rms |-> calls[1].rms])
    /\ calls' = <<[calls[1] EXCEPT !.pc = "getAllMaster"]>>
    /\ UNCHANGED <<matcherVars, trackerVars, expiryVars, loopVars, pinVars, history, cam>>

\* await refreshMasterStats(), closeEditModal(), await refreshAll(): the index
\* is built from the store and assigned; the call returns
EditRefreshMasterStats ==
    /\ calls # NoCalls /\ calls[1].pc = "getAllMaster"
    /\ masterIndex' = buildMasterIndex(master)
    /\ calls' = <<[calls[1] EXCEPT !.pc = "done"]>>
    /\ UNCHANGED <<master, matcherVars, appMaster, appIndex, input, dres, scan,
                   expiryVars, loopVars, pinVars, history, cam>>

\* editMasterItem(barcode) up to the prompt: the record is read, and a name
\* that is not empty is taken from the prompt
EditMasterItemStart ==
    \E i \in 1..Len(master), nm \in EditNames :
        /\ NoCallRunning
        /\ trim(nm) # <<>>
        /\ calls' = <<[op |-> "editMasterItem", pc |-> "addMaster", n |-> NextCallNumber,
                       item |-> <<[master[i] EXCEPT !.name = trim(nm)]>>]>>
        /\ UNCHANGED <<master, matcherVars, trackerVars, expiryVars, loopVars, pinVars,
                       history, cam>>

\* await DB.addMaster(item)
EditMasterItemPut ==
    /\ calls # NoCalls /\ calls[1].op = "editMasterItem" /\ calls[1].pc = "addMaster"
    /\ master' = addMaster(master, calls[1].item[1])
    /\ calls' = <<[calls[1] EXCEPT !.pc = "getAllMaster"]>>
    /\ UNCHANGED <<matcherVars, trackerVars, expiryVars, loopVars, pinVars, history, cam>>

\* after the boot sequence: the index and the matcher are built from the
\* store, and one scan is in the history
InitEdit ==
    /\ master \in Catalogs
    /\ input \in EditCodes
    /\ masterIndex = buildMasterIndex(master)
    /\ products = master /\ barcodeMap = IndexBarcodes(master, EmptyMap) /\ ready = TRUE
    /\ mres = NoCall
    /\ history = <<EntryOf(processScanMatch(0, masterIndex, input))>>
    /\ calls = NoCalls /\ cam = <<>>
    /\ appMaster = <<>> /\ appIndex = EmptyAppIndex
    /\ dres = NoDecode /\ scan = NoScan
    /\ IdleExpiry /\ IdleLoop /\ IdlePin

NextEdit ==
    \/ SaveEditStart \/ SaveEditItem \/ SaveEditUpdateHistory
    \/ SaveEditAddMaster \/ SaveEditAddRms \/ EditRefreshMasterStats
    \/ EditMasterItemStart \/ EditMasterItemPut

SpecEdit == InitEdit /\ [][NextEdit]_vars

SaveEditDone ==
    calls # NoCalls /\ calls[1].op = "saveEdit" /\ calls[1].pc = "done"

\* the index answers the entry's codes with the name n
MatchedAs(e, n) ==
    matchProduct(masterIndex, e.gtin14, e.gtin13, DigitsOnly(e.raw)).name = n

\* the RMS code r is a key of rms and of exact, both with the name n
RmsMapsTo(r, n) ==
    /\ MapHas(masterIndex.rms, r) /\ masterIndex.rms[r] = n
    /\ MapHas(masterIndex.exact, r) /\ masterIndex.exact[r] = n

\* C25: when saveEdit has completed for a history entry with the name N and
\* the RMS code R, matchProduct on the entry's gtin14, gtin13 and digits-only
\* raw code returns N, and a non-empty R is a key of rms and of exact, both
\* mapping to N
C25_EditReachesIndex ==
    SaveEditDone =>
        /\ MatchedAs(history[calls[1].id], calls[1].name)
        /\ calls[1].rms # <<>> => RmsMapsTo(calls[1].rms, calls[1].name)

-----------------------------------------------------------------------------
(* Scans that are recorded in the history store while others are in flight *)

MaxScans == 2

ScanPairCodes ==
    { Chars("(01)06291109120100(10)B1"), Chars("(01)06291109120100(10)B1(30)3"),
      Chars("(01)06291109120100(10)B2"), Chars("06291109120100") }

\* the entry the Oasis Tracker's processScan hands to addToHistory
app_EntryOf(c, s) ==
    [raw |-> c, gtin14 |-> s.parsed.gtin14, gtin13 |-> s.parsed.gtin13,
     name |-> IF s.match.product # None THEN s.match.product[1].name ELSE Chars("Unknown"),
     matchType |-> s.match.matchType, batch |-> s.parsed.batch,
     qty |-> IF s.parsed.qty = 0 THEN 1 ELSE s.parsed.qty, rms |-> <<>>]

\* the entry either tracker makes of the code c
ScanEntry(pg, tzv, nowv, idx, appIdx, c) ==
    IF pg = "backwall" THEN EntryOf(processScanMatch(tzv, idx, c))
    ELSE app_EntryOf(c, app_processScanMatch(tzv, nowv, appIdx, c))

\* index.get([gtin14, batch]): the position of the first entry of the pair, 0
\* when there is none
findByGtinBatch(store, gtin14, batch) ==
    LET hits == {i \in 1..Len(store) : store[i].gtin14 = gtin14 /\ store[i].batch = batch}
    IN  IF hits = {} THEN 0 ELSE CHOOSE i \in hits : \A j \in hits : i <= j

\* the Backwall Tracker looks for an existing entry only when the scan has a
\* batch; addToHistory of the Oasis Tracker always does
FirstAwait(pg, entry) ==
    IF pg = "backwall" /\ entry.batch = <<>> THEN "add" ELSE "find"

ScanCall(pg, entry) ==
    [op |-> "processScan", pc |-> FirstAwait(pg, entry), entry |-> entry, at |-> 0,
     item |-> <<>>]

\* processScan(code) up to its first await: the code is decoded and matched
ProcessScanStart ==
    \E c \in ScanPairCodes :
        /\ Len(SelectSeq(calls, LAMBDA k : k.at # -1)) < MaxScans
        /\ calls' = Append(calls,
                       ScanCall(page, ScanEntry(page, tz, clock, masterIndex, appIndex, c)))
        /\ UNCHANGED <<master, matcherVars, trackerVars, expiryVars, loopVars, pinVars,
                       history, cam>>

\* existing = await DB.findByGtinBatch(gtin14, batch): the found entry gets
\* the scan's quantity added and is handed to the store, or the new entry is
FoundEntry(k, pos) ==
    IF pos = 0 THEN [k EXCEPT !.pc = "add"]
    ELSE [k EXCEPT !.pc = "update", !.at = pos,
                   !.item = <<[history[pos] EXCEPT
                                  !.qty = (IF @ = 0 THEN 1 ELSE @) + k.entry.qty]>>]

ProcessScanFind ==
    \E i \in 1..Len(calls) :
        /\ calls[i].op = "processScan" /\ calls[i].pc = "find"
        /\ calls' = [calls EXCEPT ![i] =
                        FoundEntry(calls[i],
                                   findByGtinBatch(history, calls[i].entry.gtin14,
                                                   calls[i].entry.batch))]
        /\ UNCHANGED <<master, matcherVars, trackerVars, expiryVars, loopVars, pinVars,
                       history, cam>>

\* await DB.updateHistory(existing)
ProcessScanUpdate ==
    \E i \in 1..Len(calls) :
        /\ calls[i].op = "processScan" /\ calls[i].pc = "update"
        /\ history' = [history EXCEPT ![calls[i].at] = calls[i].item[1]]
        /\ calls' = [calls EXCEPT ![i].pc = "done"]
        /\ UNCHANGED <<master, matcherVars, trackerVars, expiryVars, loopVars, pinVars, cam>>

\* const id = await DB.addHistory(entry)
ProcessScanAdd ==
    \E i \in 1..Len(calls) :
        /\ calls[i].op = "processScan" /\ calls[i].pc = "add"
        /\ history' = Append(history, calls[i].entry)
        /\ calls' = [calls EXCEPT ![i].pc = "done"]
        /\ UNCHANGED <<master, matcherVars, trackerVars, expiryVars, loopVars, pinVars, cam>>

\* either tracker with an empty catalog; the history is empty, or holds the
\* entry of one scan that was processed before
InitScan ==
    /\ page \in {"backwall", "oasis"}
    /\ \/ history = <<>> /\ calls = NoCalls
       \/ \E c \in {Chars("(01)06291109120100(10)B1")} :
              /\ history = <<ScanEntry(page, 0, DateAt(0), EmptyIndex, EmptyAppIndex, c)>>
              /\ calls = <<[op |-> "processScan", pc |-> "done", at |-> -1, item |-> <<>>,
                            entry |-> history[1]]>>
    /\ cam = <<>>
    /\ master = <<>> /\ IdleMatcher /\ IdleTracker /\ IdleExpiry /\ IdlePin
    /\ task = NoTask /\ pending = EmptyBag /\ reader = "idle"
    /\ built = [tracker |-> <<>>, app |-> <<>>, matcher |-> <<>>]

NextScan == ProcessScanStart \/ ProcessScanFind \/ ProcessScanUpdate \/ ProcessScanAdd

SpecScan == InitScan /\ [][NextScan]_vars

\* C26: in every interleaving of processScan calls the history never holds two
\* entries with the same gtin14 and the same non-empty batch
C26_OneEntryPerPair ==
    \A i, j \in 1..Len(history) :
        (/\ history[i].gtin14 = history[j].gtin14
         /\ history[i].batch = history[j].batch
         /\ history[i].batch # <<>>) => i = j

RECURSIVE SumQty(_, _, _)
SumQty(entries, gtin14, batch) ==
    IF entries = <<>> THEN 0
    ELSE (IF Head(entries).gtin14 = gtin14 /\ Head(entries).batch = batch
          THEN Head(entries).qty ELSE 0)
         + SumQty(Tail(entries), gtin14, batch)

ScannedEntries == [i \in 1..Len(calls) |-> calls[i].entry]

AllScansDone == calls # NoCalls /\ \A i \in 1..Len(calls) : calls[i].pc = "done"

\* C27: once all processScan calls have completed, the quantity the history
\* holds for a gtin14 and a non-empty batch is the sum of the quantities decoded
\* from the scans of that pair
C27_NoQuantityLost ==
    AllScansDone =>
        \A i \in 1..Len(calls) :
            calls[i].entry.batch # <<>> =>
                SumQty(history, calls[i].entry.gtin14, calls[i].entry.batch)
                    = SumQty(ScannedEntries, calls[i].entry.gtin14, calls[i].entry.batch)

-----------------------------------------------------------------------------
(* Catalog imports that fail on the way *)

\* DB.put('master', item) of the Oasis Tracker, whose store is keyed by gtin
app_put(store, item) ==
    SelectSeq(store, LAMBDA x : KeyLess(x.gtin, item.gtin))
        \o <<item>> \o SelectSeq(store, LAMBDA x : KeyLess(item.gtin, x.gtin))

\* DB.addMasterBulk(items): the puts of one transaction
RECURSIVE addMasterBulk(_, _)
addMasterBulk(store, items) ==
    IF items = <<>> THEN store
    ELSE addMasterBulk(addMaster(store, Head(items)), Tail(items))

ImportPool ==
    << Product("012345", "Zyrtec", ""), Product("77771109120100", "Panadol", "R77") >>

\* the rows of an uploaded file, or the master array of a backup
ImportFiles == { SubSeq(ImportPool, 1, n) : n \in 1..Len(ImportPool) }

\* the history array of a backup
BackupHistories == { <<>>, <<EntryOf(processScanMatch(0, EmptyIndex, Chars("012345")))>> }

ImportOps(pg) ==
    IF pg = "backwall" THEN {"uploadMasterFile", "restoreBackup"} ELSE {"saveMasterData"}

\* the stores and the indexes as a call finds them
Stored == [master |-> master, appMaster |-> appMaster, history |-> history,
           masterIndex |-> masterIndex, appIndex |-> appIndex]

FirstStep(op, hist) ==
    IF op = "restoreBackup" /\ hist # <<>> THEN "clearHistory" ELSE "clearMaster"

\* the import up to its first write: the file is read and parsed
ImportStart ==
    \E op \in ImportOps(page), f \in ImportFiles, h \in BackupHistories :
        /\ calls = NoCalls
        /\ op # "restoreBackup" => h = <<>>
        /\ calls' = <<[op |-> op, pc |-> FirstStep(op, h), before |-> Stored,
                       items |-> IF page = "oasis" THEN AppItems(f) ELSE f, hist |-> h]>>
        /\ UNCHANGED <<master, matcherVars, trackerVars, expiryVars, loopVars, pinVars,
                       history, cam>>

Importing(pc) == calls # NoCalls /\ calls[1].op # "processScan" /\ calls[1].pc = pc

\* await DB.clearHistory()
ImportClearHistory ==
    /\ Importing("clearHistory")
    /\ history' = <<>>
    /\ calls' = <<[calls[1] EXCEPT !.pc = "addHistory"]>>
    /\ UNCHANGED <<master, matcherVars, trackerVars, expiryVars, loopVars, pinVars, cam>>

\* delete item.id; await DB.addHistory(item), for the next item of the backup
ImportAddHistory ==
    /\ Importing("addHistory")
    /\ history' = Append(history, Head(calls[1].hist))
    /\ calls' = <<[calls[1] EXCEPT !.hist = Tail(@),
                                   !.pc = IF Tail(calls[1].hist) = <<>> THEN "clearMaster"
                                          ELSE "addHistory"]>>
    /\ UNCHANGED <<master, matcherVars, trackerVars, expiryVars, loopVars, pinVars, cam>>

\* await DB.clearMaster(), await DB.clear('master')
ImportClearMaster ==
    /\ Importing("clearMaster")
    /\ master' = (IF page = "backwall" THEN <<>> ELSE master)
    /\ appMaster' = (IF page = "oasis" THEN <<>> ELSE appMaster)
    /\ calls' = <<[calls[1] EXCEPT !.pc = IF page = "backwall" THEN "bulk" ELSE "put"]>>
    /\ UNCHANGED <<matcherVars, masterIndex, appIndex, input, dres, scan, expiryVars,
                   loopVars, pinVars, history, cam>>

\* await DB.addMasterBulk(items)
ImportBulk ==
    /\ Importing("bulk")
    /\ master' = addMasterBulk(master, calls[1].items)
    /\ calls' = <<[calls[1] EXCEPT !.pc = "refresh"]>>
    /\ UNCHANGED <<matcherVars, trackerVars, expiryVars, loopVars, pinVars, history, cam>>

\* for (const item of items) await DB.put('master', item), and the put of the
\* masterUpdated setting after the last
ImportPut ==
    /\ Importing("put")
    /\ IF calls[1].items = <<>>
       THEN /\ calls' = <<[calls[1] EXCEPT !.pc = "refresh"]>>
            /\ UNCHANGED appMaster
       ELSE /\ appMaster' = app_put(appMaster, Head(calls[1].items))
            /\ calls' = <<[calls[1] EXCEPT !.items = Tail(@)]>>
    /\ UNCHANGED <<master, matcherVars, masterIndex, appIndex, input, dres, scan,
                   expiryVars, loopVars, pinVars, history, cam>>

\* await refreshMasterStats(), await loadMasterData(): the index is rebuilt
ImportRefresh ==
    /\ Importing("refresh")
    /\ masterIndex' = (IF page = "backwall" THEN buildMasterIndex(master) ELSE masterIndex)
    /\ appIndex' = (IF page = "oasis" THEN app_loadMasterData(appMaster) ELSE appIndex)
    /\ calls' = <<[calls[1] EXCEPT !.pc = "done"]>>
    /\ UNCHANGED <<master, matcherVars, appMaster, input, dres, scan, expiryVars,
                   loopVars, pinVars, history, cam>>

\* the awaited request is rejected: the catch block shows a toast
ImportFail ==
    /\ calls # NoCalls /\ calls[1].op # "processScan"
    /\ calls[1].pc \notin {"done", "failed"}
    /\ calls' = <<[calls[1] EXCEPT !.pc = "failed"]>>
    /\ UNCHANGED <<master, matcherVars, trackerVars, expiryVars, loopVars, pinVars,
                   history, cam>>

\* either tracker after its boot, with one scan in the history or none
InitImport ==
    /\ page \in {"backwall", "oasis"}
    /\ \E c \in RebuildCatalogs :
           /\ master = (IF page = "backwall" THEN c ELSE <<>>)
           /\ appMaster = (IF page = "oasis" THEN AppItems(c) ELSE <<>>)
    /\ masterIndex = buildMasterIndex(master)
    /\ appIndex = app_loadMasterData(appMaster)
    /\ history \in {<<>>, <<ScanEntry(page, 0, DateAt(0), masterIndex, appIndex,
                                      Chars("(01)06291109120100(10)B1"))>>}
    /\ calls = NoCalls /\ cam = <<>>
    /\ input = <<>> /\ dres = NoDecode /\ scan = NoScan
    /\ IdleMatcher /\ IdleExpiry /\ IdlePin
    /\ task = NoTask /\ pending = EmptyBag /\ reader = "idle"
    /\ built = [tracker |-> <<>>, app |-> <<>>, matcher |-> <<>>]

NextImport ==
    \/ ImportStart \/ ImportClearHistory \/ ImportAddHistory \/ ImportClearMaster
    \/ ImportBulk \/ ImportPut \/ ImportRefresh \/ ImportFail

SpecImport == InitImport /\ [][NextImport]_vars

ImportFailed == calls # NoCalls /\ calls[1].pc = "failed"

\* C28: when a replace-mode uploadMasterFile, a restoreBackup or a
\* saveMasterData has failed, the stored catalog, the stored history and the
\* index are what they were before the import, and the index is the one of the
\* stored catalog
C28_FailedImportChangesNothing ==
    ImportFailed =>
        /\ Stored = calls[1].before
        /\ masterIndex = buildMasterIndex(master)
        /\ appIndex = app_loadMasterData(appMaster)

-----------------------------------------------------------------------------
(* The two matchers after a change of the catalog *)

CatalogChangeDone == calls # NoCalls /\ calls[1].pc = "done"

\* a barcode of the stored catalog is found by matchProduct
FoundByMatchProduct(b) == matchProduct(masterIndex, b, <<>>, <<>>).type # "NONE"

\* the same by the PharmacyMatcher
FoundByMatchExact(b) == matchExact(barcodeMap, b) # <<>>

\* C29: after a completed saveEdit or editMasterItem State.masterIndex and the
\* PharmacyMatcher (products, _barcodeMap) are both built from the stored
\* catalog, and each stored barcode is found by matchProduct if and only if
\* matcher.matchExact finds it
C29_MatchersFollowCatalog ==
    CatalogChangeDone =>
        /\ masterIndex = buildMasterIndex(master)
        /\ products = master
        /\ barcodeMap = IndexBarcodes(master, EmptyMap)
        /\ \A i \in 1..Len(master) :
               FoundByMatchProduct(master[i].barcode) <=> FoundByMatchExact(master[i].barcode)

\* the tracker's index does follow the catalog
TrackerIndexFollowsCatalog == CatalogChangeDone => masterIndex = buildMasterIndex(master)

\* no step of an edit gives the matcher other products
MatcherStaysAsBooted == [][products' = products /\ barcodeMap' = barcodeMap]_vars

-----------------------------------------------------------------------------
(* The camera scanner *)

\* the Html5Qrcode instances a behaviour creates
MaxInstances == 2

\* State.scannerActive / State.scanning, State.html5QrCode / State.scanner (0
\* for null), the state of every Html5Qrcode instance created so far, and the
\* page shown: "scan" for the page with the reader, "other" for the rest
NoScanner == [flag |-> FALSE, handle |-> 0, inst |-> <<>>, at |-> "scan"]

Live(c) == {i \in 1..Len(c.inst) : c.inst[i] \in {"starting", "running"}}

\* instance.stop(): a running instance begins to stop; on any other the
\* library rejects the call
Stopped(insts, h) ==
    IF insts[h] = "running" THEN [insts EXCEPT ![h] = "stopping"] ELSE insts

\* stopScanner() of the Backwall Tracker up to its await; when stop() rejects
\* the catch block is passed and the flag and the handle are reset at once
stopScanner(c) ==
    IF ~c.flag \/ c.handle = 0 THEN c
    ELSE IF c.inst[c.handle] = "running"
    THEN [c EXCEPT !.inst = Stopped(c.inst, c.handle)]
    ELSE [c EXCEPT !.flag = FALSE, !.handle = 0]

\* stopScanner() of the Oasis Tracker: stop() is not awaited
app_stopScanner(c) ==
    [c EXCEPT !.flag = FALSE, !.handle = 0,
              !.inst = IF c.handle # 0 THEN Stopped(c.inst, c.handle) ELSE c.inst]

StopScannerOf(pg, c) == IF pg = "backwall" THEN stopScanner(c) ELSE app_stopScanner(c)

\* startScanner() up to its await: with the flag set it stops the scanner and
\* returns, else it creates an instance, keeps it in State and starts it
StartScanner ==
    /\ cam.at = "scan"
    /\ cam.flag \/ Len(cam.inst) < MaxInstances
    /\ cam' = IF cam.flag THEN StopScannerOf(page, cam)
              ELSE [cam EXCEPT !.inst = Append(cam.inst, "starting"),
                               !.handle = Len(cam.inst) + 1]
    /\ cam' # cam
    /\ UNCHANGED <<master, matcherVars, trackerVars, expiryVars, loopVars, pinVars,
                   history, calls>>

\* the camera is granted: start() resolves, and the flag is set
StartResolved ==
    \E i \in 1..Len(cam.inst) :
        /\ cam.inst[i] = "starting"
        /\ cam' = [cam EXCEPT !.inst[i] = "running", !.flag = TRUE]
        /\ UNCHANGED <<master, matcherVars, trackerVars, expiryVars, loopVars, pinVars,
                       history, calls>>

\* start() rejects: the Backwall Tracker shows a toast, the Oasis Tracker
\* calls stopScanner() besides
StartRejected ==
    \E i \in 1..Len(cam.inst) :
        /\ cam.inst[i] = "starting"
        /\ cam' = IF page = "backwall" THEN [cam EXCEPT !.inst[i] = "failed"]
                  ELSE app_stopScanner([cam EXCEPT !.inst[i] = "failed"])
        /\ UNCHANGED <<master, matcherVars, trackerVars, expiryVars, loopVars, pinVars,
                       history, calls>>

\* stop() resolves; the Backwall Tracker's stopScanner goes on after its await
StopResolved ==
    \E i \in 1..Len(cam.inst) :
        /\ cam.inst[i] = "stopping"
        /\ cam' = IF page = "backwall"
                  THEN [cam EXCEPT !.inst[i] = "stopped", !.flag = FALSE, !.handle = 0]
                  ELSE [cam EXCEPT !.inst[i] = "stopped"]
        /\ UNCHANGED <<master, matcherVars, trackerVars, expiryVars, loopVars, pinVars,
                       history, calls>>

\* a running instance of the Backwall Tracker reports a code: onScanSuccess
\* stops the scanner before it processes the scan
OnScanSuccess ==
    /\ page = "backwall"
    /\ \E i \in 1..Len(cam.inst) : cam.inst[i] = "running"
    /\ cam' = stopScanner(cam)
    /\ cam' # cam
    /\ UNCHANGED <<master, matcherVars, trackerVars, expiryVars, loopVars, pinVars,
                   history, calls>>

\* showPage / navigateTo: the page is shown, and on a page other than the
\* scan page a scanner whose flag is set is stopped
Navigate ==
    /\ \E p \in {"scan", "other"} :
           cam' = IF p # "scan" /\ cam.flag
                  THEN StopScannerOf(page, [cam EXCEPT !.at = p])
                  ELSE [cam EXCEPT !.at = p]
    /\ cam' # cam
    /\ UNCHANGED <<master, matcherVars, trackerVars, expiryVars, loopVars, pinVars,
                   history, calls>>

InitCamera ==
    /\ page \in {"backwall", "oasis"}
    /\ cam = NoScanner
    /\ history = <<>> /\ calls = NoCalls
    /\ master = <<>> /\ IdleMatcher /\ IdleTracker /\ IdleExpiry /\ IdlePin
    /\ task = NoTask /\ pending = EmptyBag /\ reader = "idle"
    /\ built = [tracker |-> <<>>, app |-> <<>>, matcher |-> <<>>]

NextCamera ==
    \/ StartScanner \/ StartResolved \/ StartRejected \/ StopResolved
    \/ OnScanSuccess \/ Navigate

SpecCamera == InitCamera /\ [][NextCamera]_vars

=============================================================================
